---- MODULE Spec2Model ----
(***************************************************************************)
(* Verification model of the MBTA ingestion-aggregation pipeline:          *)
(*   - the REST ingestor's rate limiter and retrying request               *)
(*     (ingestion/v3_rest_ingestor.py),                                    *)
(*   - the relational storage service (storage/transit_storage.py,         *)
(*     storage/database.py, models/database.py),                           *)
(*   - the polling engine and the orchestrator's shutdown                  *)
(*     (ingestion/base.py, main.py),                                       *)
(*   - the record flow from the ingestors to aggregator, storage and bus   *)
(*     (main.py, processing/aggregator.py).                                *)
(* Each part has its own specification over the shared variables.          *)
(***************************************************************************)
EXTENDS Integers, Sequences, FiniteSets, TLC

VARIABLES
    \* ---- REST ingestor (V3RestIngestor) ----
    now,                 \* wall clock, seconds (datetime.utcnow())
    request_timestamps,  \* self.request_timestamps
    issued,              \* real times at which _check_rate_limit returned
    frames,              \* suspended _make_request callers, innermost last
    attempts,            \* HTTP attempts (session.get) of the current request
    delays,              \* sleeps of the current request, in order
    seen,                \* outcomes the current request has met
    rate_limited,        \* 429 responses the current request has received
    backoffs,            \* the computed backoff sleeps among delays, in order
    result,              \* "idle" | "pending" | "ok" | "raised"
    \* ---- relational store (TransitStorageService) ----
    db,                  \* committed contents of the tables
    storeCount,          \* store_transit_data / store_batch calls made so far
    lastStore,           \* the last store_transit_data call and what it returned
    lastBatch,           \* the last store_batch call and what it returned
    firstId,             \* (idempotency key, id) of the first successful store of each key
    \* ---- polling engines and orchestrator (BaseIngestor, MBTAPipeline) ----
    running,             \* MBTAPipeline.running
    pc,                  \* where each engine's task is
    session,             \* each ingestor's HTTP session: "unset" | "open" | "closed"
    is_running,          \* BaseIngestor.is_running
    cancelReq,           \* task.cancel() has been called and not yet delivered
    cycle,               \* number of the engine's current poll cycle
    cbCount,             \* callback invocations of the current cycle
    cbActive,            \* callback invocations that have not returned
    lastResult,          \* the IngestionResult of the engine's last finished ingest()
    total_errors,        \* BaseIngestor.total_errors
    consecutive_failures, \* BaseIngestor.consecutive_failures
    stopCalled,          \* stop() has been called on the engine
    cycleAtStop,         \* the engine's cycle number when stop() was first called
    interrupted,         \* the engine's task was cancelled inside ingest()
    stopPc,              \* where each stop_ingestors invocation is
    \* ---- record flow (handle_ingestion_result, DataAggregator, Kafka) ----
    aggregations,        \* DataAggregator.aggregations: type name -> list
    passedToStore,       \* every value passed to store_transit_data by the callback
    published,           \* messages given to produce_json
    pending,             \* the successful IngestionResult awaiting the callback
    handled,             \* the data of the last result the callback handled
    flowCycles,          \* poll cycles run so far
    \* ---- analytics (TransitAnalytics, DataAggregator status) ----
    analyticsCall,       \* the function applied and its arguments
    analyticsRet,        \* what that call returned
    \* ---- whole poll cycles (BaseIngestor.ingest, health_check) ----
    clock,               \* datetime.utcnow() at the start of the last cycle
    ingestors,           \* the fields of each ingestor
    lastPoll,            \* the last cycle: its engine, its IngestionResult, the fields before it
    \* ---- the aggregator's buffers under interleaved callers ----
    summary_stats,       \* DataAggregator.summary_stats: type name -> count
    passedToProcess,     \* per type, the values passed to process() since the last clear
    callbacks,           \* per engine, the items its active callback has still to process
    processCalls,        \* process() calls made so far
    lastCall             \* the last call on the aggregator

restVars == <<now, request_timestamps, issued, frames, attempts, delays, seen,
              rate_limited, backoffs, result>>
storeVars == <<db, storeCount, lastStore, lastBatch, firstId>>

engineVars == <<running, pc, session, is_running, cancelReq, cycle, cbCount, cbActive,
                lastResult, total_errors, consecutive_failures, stopCalled,
                cycleAtStop, interrupted, stopPc>>

flowVars == <<aggregations, passedToStore, published, pending, handled, flowCycles>>

analyticsVars == <<analyticsCall, analyticsRet>>

pollVars == <<clock, ingestors, lastPoll>>

otherFlowVars == <<passedToStore, published, pending, handled, flowCycles>>

bufferVars == <<summary_stats, passedToProcess, callbacks, processCalls, lastCall>>

vars == <<restVars, storeVars, engineVars, flowVars, analyticsVars, pollVars, bufferVars>>

----------------------------------------------------------------------------
\* Bounds and program constants

RateWindow == 60
RetryDelay == 5
PollingInterval == 15
Quota == 2
MaxRetries == 2
MaxIssued == 7

Outcomes == {"200", "429", "5xx", "4xx", "neterr"}
RetryAfterValues == {1, 60}

----------------------------------------------------------------------------
\* Helpers

RECURSIVE Pow2(_)
Pow2(n) == IF n = 0 THEN 1 ELSE 2 * Pow2(n - 1)

SeqSet(s) == {s[i] : i \in 1..Len(s)}

NonDecreasing(s) == \A i \in 1..Len(s) : \A j \in 1..Len(s) : i < j => s[i] <= s[j]

----------------------------------------------------------------------------
\* V3RestIngestor._check_rate_limit

\* The timestamps kept by the filter at time t
Kept(ts, t) == SelectSeq(ts, LAMBDA x : x > t - RateWindow)

\* Seconds slept by a call made at time t
RateWait(ts, t) ==
    IF Len(Kept(ts, t)) >= Quota
    THEN Kept(ts, t)[1] - (t - RateWindow)
    ELSE 0

\* self.request_timestamps after a call made at time t
RateRecord(ts, t) == Append(Kept(ts, t), t)

----------------------------------------------------------------------------
\* V3RestIngestor._make_request
\* A frame of the recursion is identified by its depth: retries = number of
\* suspended callers.  A suspended caller waits either inside its try block
\* ("try": the 429 and 5xx branches) or inside its except clause ("exc").

RECURSIVE Raise(_), Except(_)

\* An aiohttp.ClientError leaves the frame whose callers are fs
Raise(fs) ==
    IF fs = <<>>
    THEN [frames |-> <<>>, sleep |-> -1, result |-> "raised"]
    ELSE IF fs[Len(fs)] = "try"
         THEN Except(SubSeq(fs, 1, Len(fs) - 1))
         ELSE Raise(SubSeq(fs, 1, Len(fs) - 1))

\* An except clause that re-raises whatever the retry count
ExceptWithoutRetry(fs) == Raise(fs)

\* The except clause of the frame whose callers are fs (retries = Len(fs))
Except(fs) ==
    IF Len(fs) < MaxRetries
    THEN [frames |-> Append(fs, "exc"), sleep |-> RetryDelay * Pow2(Len(fs)),
          result |-> "pending"]
    ELSE Raise(fs)

\* The body of the frame whose callers are fs, on response `outcome`
Respond(fs, outcome, retry_after) ==
    CASE outcome = "200" ->
           [frames |-> <<>>, sleep |-> -1, result |-> "ok"]
      [] outcome = "429" ->
           [frames |-> Append(fs, "try"), sleep |-> retry_after, result |-> "pending"]
      [] outcome = "5xx" /\ Len(fs) < MaxRetries ->
           [frames |-> Append(fs, "try"), sleep |-> RetryDelay * Pow2(Len(fs)),
            result |-> "pending"]
      [] OTHER -> Except(fs)

\* fetch_predictions / fetch_vehicles / fetch_routes enter _make_request with
\* retries = 0; gap is the time since the previous request returned.
StartRequest(gap) ==
    /\ result # "pending"
    /\ Len(issued) < MaxIssued
    /\ now' = now + gap
    /\ frames' = <<>>
    /\ attempts' = 0
    /\ delays' = <<>>
    /\ seen' = {}
    /\ rate_limited' = 0
    /\ backoffs' = <<>>
    /\ result' = "pending"
    /\ UNCHANGED <<request_timestamps, issued>>

\* One pass through _make_request: the rate-limit check, the HTTP attempt and
\* the handling of its outcome up to the next recursive call or the return.
Attempt(outcome, retry_after) ==
    /\ result = "pending"
    /\ Len(issued) < MaxIssued
    /\ LET t1 == now + RateWait(request_timestamps, now)
           r  == Respond(frames, outcome, retry_after)
       IN /\ request_timestamps' = RateRecord(request_timestamps, now)
          /\ issued' = Append(issued, t1)
          /\ attempts' = attempts + 1
          /\ seen' = seen \cup {outcome}
          /\ rate_limited' = IF outcome = "429" THEN rate_limited + 1 ELSE rate_limited
          /\ frames' = r.frames
          /\ result' = r.result
          /\ delays' = IF r.sleep >= 0 THEN Append(delays, r.sleep) ELSE delays
          /\ backoffs' = IF r.sleep >= 0 /\ outcome # "429"
                         THEN Append(backoffs, r.sleep)
                         ELSE backoffs
          /\ now' = IF r.sleep >= 0 THEN t1 + r.sleep ELSE t1

InitRest ==
    /\ now = 0
    /\ request_timestamps = <<>>
    /\ issued = <<>>
    /\ frames = <<>>
    /\ attempts = 0
    /\ delays = <<>>
    /\ seen = {}
    /\ rate_limited = 0
    /\ backoffs = <<>>
    /\ result = "idle"

NextRest ==
    \/ \E gap \in {0, PollingInterval} : StartRequest(gap) /\ UNCHANGED <<storeVars, engineVars, flowVars, analyticsVars, pollVars, bufferVars>>
    \/ \E o \in Outcomes : \E ra \in RetryAfterValues : Attempt(o, ra) /\ UNCHANGED <<storeVars, engineVars, flowVars, analyticsVars, pollVars, bufferVars>>

----------------------------------------------------------------------------
\* Relational store: models/database.py (schema), storage/database.py
\* (sessions), storage/transit_storage.py (TransitStorageService)

None == "none"
RouteIds == {"Red", "741"}
SeedRoutes == {"Red"}
TripIds == {"T1"}
StopIds == {"S1"}
VehicleIds == {"V1"}
ArrivalTimes == {None, "10:30"}
ServiceIds == {None, "weekday"}
AlertIds == {"A1"}
AutoSeedMissingEntities == TRUE
MaxStores == 3
MaxBatch == 2

\* The pydantic records of models/transit.py, tagged with type(data).__name__
Predictions ==
    [pytype : {"Prediction"}, trip_id : TripIds, stop_id : StopIds,
     route_id : RouteIds, arrival_time : ArrivalTimes,
     vehicle_id : VehicleIds \cup {None}]
VehiclePositions ==
    [pytype : {"VehiclePosition"}, vehicle_id : VehicleIds,
     trip_id : TripIds \cup {None}, route_id : RouteIds \cup {None}]
TripUpdates ==
    [pytype : {"TripUpdate"}, trip_id : TripIds, route_id : RouteIds \cup {None}]
Alerts == [pytype : {"Alert"}, alert_id : AlertIds]
Routes == [pytype : {"Route"}, route_id : RouteIds]
Stops == [pytype : {"Stop"}, stop_id : StopIds]
Trips == [pytype : {"Trip"}, trip_id : TripIds, route_id : RouteIds,
          service_id : ServiceIds]
Dicts == [pytype : {"dict"}]

KnownTypes == {"Prediction", "VehiclePosition", "TripUpdate", "Alert",
               "Route", "Stop", "Trip"}
StoreInputs ==
    Predictions \cup VehiclePositions \cup TripUpdates \cup Alerts
        \cup Routes \cup Stops \cup Trips \cup Dicts

\* The tables after initialize_database: the seeded routes only. A route or
\* stop row is its id; placeholders holds the <<table, id>> of the rows whose
\* other fields are the generated ones of _ensure_*_exists ("Route <id>",
\* route_type 0, "Stop <id>") rather than those of a stored record.
EmptyDb ==
    [routes |-> SeedRoutes, stops |-> {}, trips |-> {}, vehicles |-> {},
     placeholders |-> {},
     predictions |-> {}, vehicle_positions |-> {}, trip_updates |-> {},
     alerts |-> {}, logs |-> <<>>, nextId |-> 1]

\* A session: its view of the tables, whether a flush has failed (the
\* transaction is then rolled back and every later statement raises), and
\* the value returned by the last _store_* call.
Session(d) == [db |-> d, failed |-> FALSE, ret |-> 0]
Fail(s) == [s EXCEPT !.failed = TRUE]

TripRow(d, trip_id) == {t \in d.trips : t.id = trip_id}

\* session.add + session.flush of one row, with the constraints the schema
\* declares (primary and foreign keys, NOT NULL)
InsertRoute(s, route_id) ==
    IF route_id \in s.db.routes THEN Fail(s)
    ELSE [s EXCEPT !.db.routes = @ \cup {route_id}, !.ret = route_id]

InsertStop(s, stop_id) ==
    IF stop_id \in s.db.stops THEN Fail(s)
    ELSE [s EXCEPT !.db.stops = @ \cup {stop_id}, !.ret = stop_id]

InsertTrip(s, trip_id, route_id, service_id) ==
    IF \/ TripRow(s.db, trip_id) # {}
       \/ route_id \notin s.db.routes
       \/ service_id = None
    THEN Fail(s)
    ELSE [s EXCEPT !.db.trips = @ \cup {[id |-> trip_id, route_id |-> route_id]},
                   !.ret = trip_id]

InsertVehicle(s, vehicle_id) ==
    IF vehicle_id \in s.db.vehicles THEN Fail(s)
    ELSE [s EXCEPT !.db.vehicles = @ \cup {vehicle_id}, !.ret = vehicle_id]

FkOk(d, table, key) ==
    CASE table = "routes" -> key \in d.routes
      [] table = "stops" -> key \in d.stops
      [] table = "trips" -> TripRow(d, key) # {}
      [] table = "vehicles" -> key \in d.vehicles

NullOrFk(d, table, key) == key = None \/ FkOk(d, table, key)

InsertPrediction(s, p) ==
    IF /\ FkOk(s.db, "trips", p.trip_id)
       /\ FkOk(s.db, "routes", p.route_id)
       /\ FkOk(s.db, "stops", p.stop_id)
       /\ NullOrFk(s.db, "vehicles", p.vehicle_id)
       /\ \/ p.arrival_time = None
          \/ ~ \E r \in s.db.predictions :
                 /\ r.trip_id = p.trip_id
                 /\ r.stop_id = p.stop_id
                 /\ r.arrival_time = p.arrival_time
    THEN [s EXCEPT !.db.predictions = @ \cup
                     {[id |-> s.db.nextId, trip_id |-> p.trip_id,
                       stop_id |-> p.stop_id, route_id |-> p.route_id,
                       arrival_time |-> p.arrival_time,
                       vehicle_id |-> p.vehicle_id]},
                   !.db.nextId = @ + 1, !.ret = s.db.nextId]
    ELSE Fail(s)

InsertVehiclePosition(s, v) ==
    IF /\ FkOk(s.db, "vehicles", v.vehicle_id)
       /\ NullOrFk(s.db, "trips", v.trip_id)
       /\ NullOrFk(s.db, "routes", v.route_id)
    THEN [s EXCEPT !.db.vehicle_positions = @ \cup
                     {[id |-> s.db.nextId, vehicle_id |-> v.vehicle_id,
                       trip_id |-> v.trip_id, route_id |-> v.route_id]},
                   !.db.nextId = @ + 1, !.ret = s.db.nextId]
    ELSE Fail(s)

InsertTripUpdate(s, u) ==
    IF /\ FkOk(s.db, "trips", u.trip_id)
       /\ NullOrFk(s.db, "routes", u.route_id)
    THEN [s EXCEPT !.db.trip_updates = @ \cup
                     {[id |-> s.db.nextId, trip_id |-> u.trip_id,
                       route_id |-> u.route_id]},
                   !.db.nextId = @ + 1, !.ret = s.db.nextId]
    ELSE Fail(s)

InsertAlert(s, a) ==
    IF \E r \in s.db.alerts : r.alert_id = a.alert_id THEN Fail(s)
    ELSE [s EXCEPT !.db.alerts = @ \cup {[id |-> s.db.nextId, alert_id |-> a.alert_id]},
                   !.db.nextId = @ + 1, !.ret = s.db.nextId]

\* The row just added by session s carries the generated placeholder fields
MarkPlaceholder(s, table, key) ==
    IF s.failed THEN s
    ELSE [s EXCEPT !.db.placeholders = @ \cup {<<table, key>>}]

\* TransitStorageService._ensure_*_exists
EnsureRouteExists(s, route_id) ==
    IF s.failed THEN s
    ELSE IF route_id \in s.db.routes THEN s
    ELSE MarkPlaceholder(InsertRoute(s, route_id), "routes", route_id)

EnsureStopExists(s, stop_id) ==
    IF s.failed THEN s
    ELSE IF stop_id \in s.db.stops THEN s
    ELSE MarkPlaceholder(InsertStop(s, stop_id), "stops", stop_id)

EnsureTripExists(s, trip_id) ==
    IF s.failed THEN s
    ELSE IF TripRow(s.db, trip_id) # {} THEN s
    ELSE InsertTrip(s, trip_id, "unknown", "unknown")

EnsureVehicleExists(s, vehicle_id) ==
    IF s.failed THEN s
    ELSE IF vehicle_id = None \/ vehicle_id \in s.db.vehicles THEN s
    ELSE InsertVehicle(s, vehicle_id)

\* A lookup that compares arrival_time with SQL "=": a NULL matches nothing
ExistingPredictionBySqlEquals(d, p) ==
    {r \in d.predictions : /\ r.trip_id = p.trip_id
                           /\ r.stop_id = p.stop_id
                           /\ p.arrival_time # None
                           /\ r.arrival_time = p.arrival_time}

\* The idempotency lookup of _store_prediction (== None compiles to IS NULL)
ExistingPrediction(d, p) ==
    {r \in d.predictions : /\ r.trip_id = p.trip_id
                           /\ r.stop_id = p.stop_id
                           /\ r.arrival_time = p.arrival_time}

\* The optional parents of a record: a route or trip that may be None, and
\* the vehicle, seeded only when auto_seed_missing_entities is set
EnsureRouteIfGiven(s, route_id) ==
    IF route_id # None THEN EnsureRouteExists(s, route_id) ELSE s

EnsureTripIfGiven(s, trip_id) ==
    IF trip_id # None THEN EnsureTripExists(s, trip_id) ELSE s

EnsureVehicleIfSeeding(s, vehicle_id) ==
    IF AutoSeedMissingEntities /\ vehicle_id # None
    THEN EnsureVehicleExists(s, vehicle_id)
    ELSE s

\* _store_prediction after its parents: the lookup, then the insert
FindOrInsertPrediction(s, p) ==
    IF s.failed THEN s
    ELSE IF ExistingPrediction(s.db, p) # {}
         THEN [s EXCEPT !.ret = (CHOOSE r \in ExistingPrediction(s.db, p) : TRUE).id]
         ELSE InsertPrediction(s, p)

\* TransitStorageService._store_prediction
StorePrediction(s, p) ==
    FindOrInsertPrediction(
        EnsureVehicleIfSeeding(
            EnsureTripExists(
                EnsureStopExists(EnsureRouteExists(s, p.route_id), p.stop_id),
                p.trip_id),
            p.vehicle_id),
        p)

\* _store_vehicle_position after its parents
AddVehiclePosition(s, v) == IF s.failed THEN s ELSE InsertVehiclePosition(s, v)

\* TransitStorageService._store_vehicle_position
StoreVehiclePosition(s, v) ==
    AddVehiclePosition(
        EnsureVehicleIfSeeding(
            EnsureTripIfGiven(EnsureRouteIfGiven(s, v.route_id), v.trip_id),
            v.vehicle_id),
        v)

\* _store_trip_update after its parents
AddTripUpdate(s, u) == IF s.failed THEN s ELSE InsertTripUpdate(s, u)

\* TransitStorageService._store_trip_update
StoreTripUpdate(s, u) ==
    AddTripUpdate(EnsureRouteIfGiven(EnsureTripExists(s, u.trip_id), u.route_id), u)

\* TransitStorageService._store_alert
StoreAlert(s, a) ==
    IF s.failed THEN s
    ELSE IF \E r \in s.db.alerts : r.alert_id = a.alert_id
         THEN [s EXCEPT !.ret = (CHOOSE r \in s.db.alerts : r.alert_id = a.alert_id).id]
         ELSE InsertAlert(s, a)

\* A _store_route that fills in the fields of a placeholder row it finds
StoreRouteUpdatingPlaceholder(s, r) ==
    IF s.failed THEN s
    ELSE IF r.route_id \in s.db.routes
         THEN [s EXCEPT !.db.placeholders = @ \ {<<"routes", r.route_id>>},
                        !.ret = r.route_id]
    ELSE InsertRoute(s, r.route_id)

\* TransitStorageService._store_route / _store_stop / _store_trip
StoreRoute(s, r) ==
    IF s.failed THEN s
    ELSE IF r.route_id \in s.db.routes THEN [s EXCEPT !.ret = r.route_id]
    ELSE InsertRoute(s, r.route_id)

StoreStop(s, r) ==
    IF s.failed THEN s
    ELSE IF r.stop_id \in s.db.stops THEN [s EXCEPT !.ret = r.stop_id]
    ELSE InsertStop(s, r.stop_id)

\* _store_trip after _ensure_route_exists
AddTrip(s, t) ==
    IF s.failed THEN s ELSE InsertTrip(s, t.trip_id, t.route_id, t.service_id)

StoreTrip(s, t) ==
    IF s.failed THEN s
    ELSE IF TripRow(s.db, t.trip_id) # {} THEN [s EXCEPT !.ret = t.trip_id]
    ELSE AddTrip(EnsureRouteExists(s, t.route_id), t)

\* The isinstance chain of store_transit_data and store_batch
StoreRecord(s, data) ==
    CASE data.pytype = "Prediction" -> StorePrediction(s, data)
      [] data.pytype = "VehiclePosition" -> StoreVehiclePosition(s, data)
      [] data.pytype = "TripUpdate" -> StoreTripUpdate(s, data)
      [] data.pytype = "Alert" -> StoreAlert(s, data)
      [] data.pytype = "Route" -> StoreRoute(s, data)
      [] data.pytype = "Stop" -> StoreStop(s, data)
      [] data.pytype = "Trip" -> StoreTrip(s, data)
      [] OTHER -> s

\* TransitStorageService._log_ingestion
LogIngestion(s, status, processed, inserted, failed) ==
    IF s.failed THEN s
    ELSE [s EXCEPT !.db.logs = Append(@, [status |-> status,
                                          records_processed |-> processed,
                                          records_inserted |-> inserted,
                                          records_failed |-> failed])]

\* DatabaseManager.close_session_async: commit, or roll back and raise
Committed(d0, s) == IF s.failed THEN d0 ELSE s.db

\* What store_transit_data returns once the record (stored_id) and the log
\* row have been written in session s: the failure path logs the error in a
\* session of its own
StoreReturn(d0, stored_id, s) ==
    IF ~ s.failed
    THEN [db |-> Committed(d0, s), success |-> TRUE,
          stored_id |-> stored_id, error |-> None]
    ELSE [db |-> Committed(d0, LogIngestion(Session(d0), "error", 1, 0, 1)),
          success |-> FALSE, stored_id |-> 0, error |-> "db_error"]

\* store_transit_data after the _store_* call: the success log row
StoreLogged(d0, s) == StoreReturn(d0, s.ret, LogIngestion(s, "success", 1, 1, 0))

\* TransitStorageService.store_transit_data on the committed tables d0
StoreTransitData(d0, data) ==
    IF data.pytype \notin KnownTypes
    THEN [db |-> d0, success |-> FALSE, stored_id |-> 0, error |-> "unknown_type"]
    ELSE StoreLogged(d0, StoreRecord(Session(d0), data))

\* The counters of store_batch after one record's _store_* call left session s
BatchCount(acc, s) ==
    IF s.failed
    THEN [s |-> s, success_count |-> acc.success_count,
          error_count |-> acc.error_count + 1]
    ELSE [s |-> s, success_count |-> acc.success_count + 1,
          error_count |-> acc.error_count]

\* One iteration of the loop of store_batch (a value of no known type is
\* counted as stored)
BatchStep(acc, data) ==
    IF data.pytype \in KnownTypes
    THEN BatchCount(acc, StoreRecord(acc.s, data))
    ELSE [acc EXCEPT !.success_count = @ + 1]

\* The loop of store_batch: one session for the whole list
RECURSIVE BatchLoop(_, _, _)
BatchLoop(acc, data_list, i) ==
    IF i > Len(data_list) THEN acc
    ELSE BatchLoop(BatchStep(acc, data_list[i]), data_list, i + 1)

\* What store_batch returns once the loop (l) and the log row (session s)
\* are done: the counts, or the error of the failed log or commit
BatchReturn(d0, data_list, l, s) ==
    IF ~ s.failed
    THEN [db |-> Committed(d0, s), success |-> TRUE, counts |-> TRUE,
          total |-> Len(data_list), successful |-> l.success_count,
          errors |-> l.error_count, raised |-> l.error_count]
    ELSE [db |-> Committed(d0, s), success |-> FALSE, counts |-> FALSE,
          total |-> 0, successful |-> 0, errors |-> 0, raised |-> l.error_count]

\* store_batch after the loop: the batch log row
BatchLogged(d0, data_list, l) ==
    BatchReturn(d0, data_list, l,
                LogIngestion(l.s, IF l.error_count = 0 THEN "success" ELSE "partial",
                             Len(data_list), l.success_count, l.error_count))

\* TransitStorageService.store_batch on the committed tables d0
StoreBatch(d0, data_list) ==
    BatchLogged(d0, data_list,
                BatchLoop([s |-> Session(d0), success_count |-> 0, error_count |-> 0],
                          data_list, 1))

PredictionKey(p) == <<p.trip_id, p.stop_id, p.arrival_time>>
KeysOf(ids) == {e[1] : e \in ids}

NoStore == [called |-> FALSE]
NoBatch == [called |-> FALSE]

\* A caller (DataAggregator.process_and_store, demo or test) stores one record
Store(data) ==
    /\ storeCount < MaxStores
    /\ LET r == StoreTransitData(db, data)
       IN /\ db' = r.db
          /\ lastStore' = [called |-> TRUE, data |-> data, success |-> r.success,
                           stored_id |-> r.stored_id, error |-> r.error,
                           before |-> db]
          /\ firstId' = IF /\ data.pytype = "Prediction"
                           /\ r.success
                           /\ PredictionKey(data) \notin KeysOf(firstId)
                        THEN firstId \cup {<<PredictionKey(data), r.stored_id>>}
                        ELSE firstId
    /\ storeCount' = storeCount + 1
    /\ lastBatch' = NoBatch

\* A caller (DataAggregator.process_batch) stores a list of records
StoreBatchCall(data_list) ==
    /\ storeCount < MaxStores
    /\ LET r == StoreBatch(db, data_list)
       IN /\ db' = r.db
          /\ lastBatch' = [called |-> TRUE, data_list |-> data_list,
                           success |-> r.success, counts |-> r.counts,
                           total |-> r.total, successful |-> r.successful,
                           errors |-> r.errors, raised |-> r.raised,
                           before |-> db]
          /\ firstId' = firstId \cup
                {<<PredictionKey(p), p.id>> :
                    p \in {q \in r.db.predictions :
                             PredictionKey(q) \notin KeysOf(firstId)}}
    /\ storeCount' = storeCount + 1
    /\ lastStore' = NoStore

InitStore ==
    /\ db = EmptyDb
    /\ storeCount = 0
    /\ lastStore = NoStore
    /\ lastBatch = NoBatch
    /\ firstId = {}

BatchInputs ==
    {t \in Trips : t.route_id = "Red"}
        \cup {r \in Routes : r.route_id = "741"}
        \cup {p \in Predictions : /\ p.vehicle_id = None
                                  /\ p.route_id = "Red"
                                  /\ p.arrival_time = None}

NextStore ==
    \/ \E data \in StoreInputs : Store(data) /\ UNCHANGED <<restVars, engineVars, flowVars, analyticsVars, pollVars, bufferVars>>
    \/ \E n \in 1..MaxBatch : \E data_list \in [1..n -> BatchInputs] :
           StoreBatchCall(data_list) /\ UNCHANGED <<restVars, engineVars, flowVars, analyticsVars, pollVars, bufferVars>>

----------------------------------------------------------------------------
\* Polling engines (ingestion/base.py BaseIngestor) and the orchestrator's
\* start and shutdown (main.py MBTAPipeline, main.signal_handler)

Engines == {"mbta_v3_rest", "mbta_gtfs_rt"}
Stoppers == {"signal", "cleanup"}
MaxCycles == 3

\* What one ingest() can come to: fetch_data raised; or it returned `raw`
\* items of which transform_data kept `kept`
FetchOutcomes ==
    {[raised |-> TRUE, raw |-> 0, kept |-> 0],
     [raised |-> FALSE, raw |-> 0, kept |-> 0],
     [raised |-> FALSE, raw |-> 1, kept |-> 0],
     [raised |-> FALSE, raw |-> 1, kept |-> 1]}

\* BaseIngestor.ingest: the IngestionResult it returns
IngestionResult(o) ==
    IF o.raised THEN [success |-> FALSE, record_count |-> 0]
    ELSE [success |-> TRUE, record_count |-> o.kept]

\* A test that lets every result through to the callback
IsSuccessfulIgnoringResult(r) == TRUE

\* IngestionResult.is_successful
IsSuccessful(r) == r.success /\ r.record_count > 0

\* MBTAPipeline.run up to its loop: initialize_pipeline and start_ingestors
StartIngestors ==
    /\ \A e \in Engines : pc[e] = "none"
    /\ running' = TRUE
    /\ pc' = [e \in Engines |-> "created"]
    /\ session' = [e \in Engines |-> "open"]
    /\ UNCHANGED <<is_running, cancelReq, cycle, cbCount, cbActive, lastResult,
                   total_errors, consecutive_failures, stopCalled, cycleAtStop,
                   interrupted, stopPc>>

\* The first step of the engine's task: run_continuous up to the first await
\* of ingest()
TaskStart(e) ==
    /\ pc[e] = "created"
    /\ ~ cancelReq[e]
    /\ is_running' = [is_running EXCEPT ![e] = TRUE]
    /\ pc' = [pc EXCEPT ![e] = "fetch"]
    /\ cycle' = [cycle EXCEPT ![e] = 1]
    /\ cbCount' = [cbCount EXCEPT ![e] = 0]
    /\ UNCHANGED <<running, session, cancelReq, cbActive, lastResult, total_errors,
                   consecutive_failures, stopCalled, cycleAtStop, interrupted, stopPc>>

\* ingest() finishes: counters are updated, and the callback is entered if
\* the result is successful
FetchDone(e, o) ==
    /\ pc[e] = "fetch"
    /\ ~ cancelReq[e]
    /\ lastResult' = [lastResult EXCEPT ![e] = IngestionResult(o)]
    /\ total_errors' = [total_errors EXCEPT ![e] = IF o.raised THEN @ + 1 ELSE @]
    /\ consecutive_failures' =
          [consecutive_failures EXCEPT
             ![e] = IF o.raised THEN @ + 1 ELSE IF o.raw = 0 THEN @ ELSE 0]
    /\ IF IsSuccessful(IngestionResult(o))
       THEN /\ pc' = [pc EXCEPT ![e] = "callback"]
            /\ cbCount' = [cbCount EXCEPT ![e] = @ + 1]
            /\ cbActive' = [cbActive EXCEPT ![e] = @ + 1]
       ELSE /\ pc' = [pc EXCEPT ![e] = "sleep"]
            /\ UNCHANGED <<cbCount, cbActive>>
    /\ UNCHANGED <<running, session, is_running, cancelReq, cycle, stopCalled,
                   cycleAtStop, interrupted, stopPc>>

\* await callback(result) returns; the task goes to sleep for the interval
CallbackDone(e) ==
    /\ pc[e] = "callback"
    /\ cbActive' = [cbActive EXCEPT ![e] = @ - 1]
    /\ pc' = [pc EXCEPT ![e] = "sleep"]
    /\ UNCHANGED <<running, session, is_running, cancelReq, cycle, cbCount, lastResult,
                   total_errors, consecutive_failures, stopCalled, cycleAtStop,
                   interrupted, stopPc>>

\* asyncio.sleep(polling_interval) returns: the while condition is tested
SleepDone(e) ==
    /\ pc[e] = "sleep"
    /\ ~ cancelReq[e]
    /\ IF is_running[e]
       THEN /\ cycle[e] < MaxCycles
            /\ pc' = [pc EXCEPT ![e] = "fetch"]
            /\ cycle' = [cycle EXCEPT ![e] = @ + 1]
            /\ cbCount' = [cbCount EXCEPT ![e] = 0]
            /\ UNCHANGED is_running
       ELSE /\ pc' = [pc EXCEPT ![e] = "done"]
            /\ UNCHANGED <<cycle, cbCount, is_running>>
    /\ UNCHANGED <<running, session, cancelReq, cbActive, lastResult, total_errors,
                   consecutive_failures, stopCalled, cycleAtStop, interrupted, stopPc>>

\* The task's next step after task.cancel(): CancelledError is thrown at the
\* await it is suspended in (or the task never starts); ingest's
\* `except Exception` does not catch it, run_continuous does
Cancelled(e) ==
    /\ cancelReq[e]
    /\ pc[e] \in {"created", "fetch", "sleep"}
    /\ pc' = [pc EXCEPT ![e] = "done"]
    /\ is_running' = [is_running EXCEPT ![e] = FALSE]
    /\ interrupted' = [interrupted EXCEPT ![e] = (pc[e] = "fetch")]
    /\ UNCHANGED <<running, session, cancelReq, cycle, cbCount, cbActive, lastResult,
                   total_errors, consecutive_failures, stopCalled, cycleAtStop, stopPc>>

\* MBTAPipeline.stop_ingestors up to its await of gather: stop() on every
\* ingestor, cancel() on every task that is not done.  The signal handler's
\* task can run once the pipeline is in its loop; run's finally clause runs
\* once the loop has seen running = False or its body has raised.
StopIngestors(s) ==
    /\ stopPc[s] = "idle"
    /\ \A e \in Engines : pc[e] # "none"
    /\ running' = FALSE
    /\ is_running' = [e \in Engines |-> FALSE]
    /\ stopCalled' = [e \in Engines |-> TRUE]
    /\ cycleAtStop' = [e \in Engines |-> IF stopCalled[e] THEN cycleAtStop[e] ELSE cycle[e]]
    /\ cancelReq' = [e \in Engines |-> cancelReq[e] \/ pc[e] # "done"]
    /\ stopPc' = [stopPc EXCEPT ![s] = "gather"]
    /\ UNCHANGED <<pc, session, cycle, cbCount, cbActive, lastResult, total_errors,
                   consecutive_failures, interrupted>>

\* A gather that returns without waiting for the tasks
GatherReturnsAtOnce == TRUE

\* asyncio.gather(*self.tasks) returns once every task is done
GatherReturns == \A e \in Engines : pc[e] = "done"

\* stop_ingestors after gather: the sessions are closed
CloseSessions(s) ==
    /\ stopPc[s] = "gather"
    /\ GatherReturns
    /\ session' = [e \in Engines |-> "closed"]
    /\ stopPc' = [stopPc EXCEPT ![s] = "done"]
    /\ UNCHANGED <<running, pc, is_running, cancelReq, cycle, cbCount, cbActive,
                   lastResult, total_errors, consecutive_failures, stopCalled,
                   cycleAtStop, interrupted>>

InitEngine ==
    /\ running = FALSE
    /\ pc = [e \in Engines |-> "none"]
    /\ session = [e \in Engines |-> "unset"]
    /\ is_running = [e \in Engines |-> FALSE]
    /\ cancelReq = [e \in Engines |-> FALSE]
    /\ cycle = [e \in Engines |-> 0]
    /\ cbCount = [e \in Engines |-> 0]
    /\ cbActive = [e \in Engines |-> 0]
    /\ lastResult = [e \in Engines |-> [success |-> FALSE, record_count |-> 0]]
    /\ total_errors = [e \in Engines |-> 0]
    /\ consecutive_failures = [e \in Engines |-> 0]
    /\ stopCalled = [e \in Engines |-> FALSE]
    /\ cycleAtStop = [e \in Engines |-> 0]
    /\ interrupted = [e \in Engines |-> FALSE]
    /\ stopPc = [s \in Stoppers |-> "idle"]

NextEngine ==
    \/ StartIngestors /\ UNCHANGED <<restVars, storeVars, flowVars, analyticsVars, pollVars, bufferVars>>
    \/ \E e \in Engines : TaskStart(e) /\ UNCHANGED <<restVars, storeVars, flowVars, analyticsVars, pollVars, bufferVars>>
    \/ \E e \in Engines : \E o \in FetchOutcomes :
           FetchDone(e, o) /\ UNCHANGED <<restVars, storeVars, flowVars, analyticsVars, pollVars, bufferVars>>
    \/ \E e \in Engines : CallbackDone(e) /\ UNCHANGED <<restVars, storeVars, flowVars, analyticsVars, pollVars, bufferVars>>
    \/ \E e \in Engines : SleepDone(e) /\ UNCHANGED <<restVars, storeVars, flowVars, analyticsVars, pollVars, bufferVars>>
    \/ \E e \in Engines : Cancelled(e) /\ UNCHANGED <<restVars, storeVars, flowVars, analyticsVars, pollVars, bufferVars>>
    \/ \E s \in Stoppers : StopIngestors(s) /\ UNCHANGED <<restVars, storeVars, flowVars, analyticsVars, pollVars, bufferVars>>
    \/ \E s \in Stoppers : CloseSessions(s) /\ UNCHANGED <<restVars, storeVars, flowVars, analyticsVars, pollVars, bufferVars>>

\* The event loop runs every ready task: a cancelled task is resumed, a
\* callback that has been entered returns, a satisfied gather is resumed
EngineFairness ==
    /\ \A e \in Engines : WF_vars(Cancelled(e) /\ UNCHANGED <<restVars, storeVars, flowVars, analyticsVars, pollVars, bufferVars>>)
    /\ \A e \in Engines : WF_vars(CallbackDone(e) /\ UNCHANGED <<restVars, storeVars, flowVars, analyticsVars, pollVars, bufferVars>>)
    /\ \A s \in Stoppers : WF_vars(CloseSessions(s) /\ UNCHANGED <<restVars, storeVars, flowVars, analyticsVars, pollVars, bufferVars>>)

----------------------------------------------------------------------------
\* Record flow: ingestors' transform_data -> BaseIngestor.ingest ->
\* MBTAPipeline.handle_ingestion_result -> DataAggregator.process_and_store,
\* TransitStorageService.store_transit_data, KafkaProducerWrapper.produce_json.
\* An optional value is a sequence of length 0 (None) or 1.  A Python dict is
\* a record whose DOMAIN is its key set.

MaxFlowCycles == 2
MaxRaw == 2

\* JSON:API items of the REST source (item["id"] may be absent)
V3RawItems ==
    [type : {"prediction"}, has_id : BOOLEAN, trip : {<<>>, <<"T1">>},
     delay : {<<>>, <<120>>, <<5000>>}]
      \cup [type : {"vehicle"}, has_id : BOOLEAN,
            latitude : {<<42>>, <<100>>}, longitude : {<<-71>>}]
      \cup [type : {"route"}, has_id : {TRUE}]

\* Entities as parsed by GTFSRTIngestor._parse_* inside fetch_data
GtfsRawItems ==
    [pytype : {"dict"}, vehicle_id : {"V1"}, latitude : {<<42>>, <<100>>},
     longitude : {<<-71>>, <<-200>>}, source : {"mbta_gtfs_rt"}]
      \cup [pytype : {"dict"}, trip_id : {"T1"}, delay : {<<>>, <<120>>, <<5000>>},
            stop_time_updates : {<<>>}, source : {"mbta_gtfs_rt"}]
      \cup [pytype : {"dict"}, alert_id : {"A1"}, affected_routes : {<<"Red">>},
            source : {"mbta_gtfs_rt"}]

\* V3RestIngestor._transform_prediction: None (<<>>) when item["id"] raises
TransformPrediction(item) ==
    IF ~ item.has_id THEN <<>>
    ELSE << [pytype |-> "dict", prediction_id |-> "P1", trip_id |-> item.trip,
             delay |-> item.delay, source |-> "mbta_v3_api"] >>

\* V3RestIngestor._transform_vehicle
TransformVehicle(item) ==
    IF ~ item.has_id THEN <<>>
    ELSE << [pytype |-> "dict", vehicle_id |-> "V1", latitude |-> item.latitude,
             longitude |-> item.longitude, source |-> "mbta_v3_api"] >>

\* V3RestIngestor.transform_data
RECURSIVE V3TransformData(_)
V3TransformData(raw_data) ==
    IF raw_data = <<>> THEN <<>>
    ELSE LET item == Head(raw_data)
             transformed == CASE item.type = "prediction" -> TransformPrediction(item)
                              [] item.type = "vehicle" -> TransformVehicle(item)
                              [] OTHER -> <<>>
         IN transformed \o V3TransformData(Tail(raw_data))

\* GTFSRTIngestor.transform_data
GtfsTransformData(raw_data) == raw_data

TransformData(e, raw_data) ==
    IF e = "mbta_v3_rest" THEN V3TransformData(raw_data) ELSE GtfsTransformData(raw_data)

\* type(data).__name__
TypeName(data) == data.pytype
TypeNames == KnownTypes \cup {"dict"}

\* DataAggregator.process: append to the buffer of the value's type name
Process(aggs, data) == [aggs EXCEPT ![TypeName(data)] = Append(@, data)]

\* item.get("type") or item.get("_type") or "unknown"
ItemType(item) ==
    IF "type" \in DOMAIN item THEN item.type
    ELSE IF "_type" \in DOMAIN item THEN item._type
    ELSE "unknown"

\* The topic chosen by handle_ingestion_result (<<>>: the item is skipped)
Topic(item) ==
    CASE ItemType(item) = "prediction" -> <<"mbta.predictions.raw">>
      [] ItemType(item) = "vehicle" -> <<"mbta.vehicles.raw">>
      [] ItemType(item) = "alert" -> <<"mbta.alerts.raw">>
      [] ItemType(item) = "trip_update" -> <<"mbta.trip_updates.raw">>
      [] OTHER -> <<>>

\* A loop that gives up at the first record whose store fails
RECURSIVE ProcessAndStoreUntilFailure(_, _)
ProcessAndStoreUntilFailure(acc, data) ==
    IF data = <<>> THEN acc
    ELSE IF ~ StoreTransitData(acc.db, Head(data)).success
    THEN [aggs |-> Process(acc.aggs, Head(data)),
          db |-> StoreTransitData(acc.db, Head(data)).db,
          passed |-> Append(acc.passed, Head(data)),
          results |-> Append(acc.results, FALSE)]
    ELSE ProcessAndStoreUntilFailure(
             [aggs |-> Process(acc.aggs, Head(data)),
              db |-> StoreTransitData(acc.db, Head(data)).db,
              passed |-> Append(acc.passed, Head(data)),
              results |-> Append(acc.results, TRUE)],
             Tail(data))

\* The first loop of handle_ingestion_result: process_and_store per item
RECURSIVE ProcessAndStoreAll(_, _)
ProcessAndStoreAll(acc, data) ==
    IF data = <<>> THEN acc
    ELSE LET item == Head(data)
             r == StoreTransitData(acc.db, item)
         IN ProcessAndStoreAll([aggs |-> Process(acc.aggs, item), db |-> r.db,
                                passed |-> Append(acc.passed, item),
                                results |-> Append(acc.results, r.success)],
                               Tail(data))

\* The second loop of handle_ingestion_result: one message per item with a topic
RECURSIVE ProduceAll(_, _)
ProduceAll(pub, data) ==
    IF data = <<>> THEN pub
    ELSE LET item == Head(data)
         IN ProduceAll(IF Topic(item) = <<>> THEN pub
                       ELSE Append(pub, [topic |-> Topic(item)[1], value |-> item]),
                       Tail(data))

\* get_summary_stats()["total_records"]
RECURSIVE SumLen(_, _)
SumLen(aggs, names) ==
    IF names = {} THEN 0
    ELSE LET n == CHOOSE x \in names : TRUE
         IN Len(aggs[n]) + SumLen(aggs, names \ {n})
TotalRecords(aggs) == SumLen(aggs, TypeNames)

\* store_aggregation_summary / store_analytics_summary: one log row each
StoreSummary(d) == Committed(d, LogIngestion(Session(d), "success", 0, 0, 0))

\* One poll cycle of engine e up to the IngestionResult: fetch_data returned
\* raw_data; an unsuccessful result is not delivered
Ingest(e, raw_data) ==
    /\ pending = <<>>
    /\ flowCycles < MaxFlowCycles
    /\ flowCycles' = flowCycles + 1
    /\ LET data == IF raw_data = <<>> THEN <<>> ELSE TransformData(e, raw_data)
           res == [success |-> TRUE, record_count |-> Len(data)]
       IN pending' = IF IsSuccessful(res) THEN << [source |-> e, data |-> data] >>
                     ELSE <<>>
    /\ UNCHANGED <<aggregations, passedToStore, published, handled>>

\* MBTAPipeline.handle_ingestion_result
HandleIngestionResult ==
    /\ pending # <<>>
    /\ LET data == pending[1].data
           r == ProcessAndStoreAll([aggs |-> aggregations, db |-> db,
                                    passed |-> passedToStore, results |-> <<>>], data)
           d1 == IF TotalRecords(r.aggs) % 100 = 0 THEN StoreSummary(r.db) ELSE r.db
           d2 == IF TotalRecords(r.aggs) % 100 = 0 THEN StoreSummary(d1) ELSE d1
       IN /\ aggregations' = r.aggs
          /\ passedToStore' = r.passed
          /\ db' = d2
          /\ published' = ProduceAll(published, data)
          /\ handled' = data
    /\ pending' = <<>>
    /\ UNCHANGED <<flowCycles, storeCount, lastStore, lastBatch, firstId>>

InitFlow ==
    /\ aggregations = [t \in TypeNames |-> <<>>]
    /\ passedToStore = <<>>
    /\ published = <<>>
    /\ pending = <<>>
    /\ handled = <<>>
    /\ flowCycles = 0

RawLists(items) == UNION {[1..n -> items] : n \in 0..MaxRaw}

NextFlow ==
    \/ \E raw_data \in RawLists(V3RawItems) :
           Ingest("mbta_v3_rest", raw_data) /\ UNCHANGED <<restVars, storeVars, engineVars, analyticsVars, pollVars, bufferVars>>
    \/ \E raw_data \in RawLists(GtfsRawItems) :
           Ingest("mbta_gtfs_rt", raw_data) /\ UNCHANGED <<restVars, storeVars, engineVars, analyticsVars, pollVars, bufferVars>>
    \/ HandleIngestionResult /\ UNCHANGED <<restVars, engineVars, analyticsVars, pollVars, bufferVars>>

----------------------------------------------------------------------------
\* DataAggregator: process() of model objects and the summaries computed from
\* the buffers.  A float is kept exact as a ratio [num, den] with den > 0.

MaxDelayRecords == 5
MaxRouteRecords == 3

DelayValues ==
    {<<>>, <<-60>>, <<0>>, <<60>>, <<120>>, <<300>>, <<600>>, <<900>>, <<1200>>, <<1800>>}

\* Prediction objects as the delay statistics see them
DelayPredictions == [pytype : {"Prediction"}, route_id : {"Red"}, delay : DelayValues]

\* Model objects as get_route_summary sees them
RoutePredictions ==
    [pytype : {"Prediction"}, route_id : RouteIds, delay : {<<>>, <<0>>, <<120>>}]
RoutePositions == [pytype : {"VehiclePosition"}, route_id : {"Red", None}]
RouteAlerts ==
    [pytype : {"Alert"}, affected_routes : {<<>>, <<"Red">>, <<"Red", "741">>}]
RouteInputs == RoutePredictions \cup RoutePositions \cup RouteAlerts

Ratio(n, d) == [num |-> n, den |-> d]
RatioEq(r, v) == r.num = v * r.den
RatioGt(r, v) == r.num > v * r.den

\* sum(s), halving the list so that long lists stay shallow
RECURSIVE SumSeq(_)
SumSeq(s) ==
    IF s = <<>> THEN 0
    ELSE IF Len(s) = 1 THEN s[1]
    ELSE SumSeq(SubSeq(s, 1, Len(s) \div 2)) + SumSeq(SubSeq(s, Len(s) \div 2 + 1, Len(s)))

RECURSIVE MaxSeq(_)
MaxSeq(s) ==
    IF Len(s) = 1 THEN s[1]
    ELSE IF Head(s) >= MaxSeq(Tail(s)) THEN Head(s) ELSE MaxSeq(Tail(s))

RECURSIVE MinSeq(_)
MinSeq(s) ==
    IF Len(s) = 1 THEN s[1]
    ELSE IF Head(s) <= MinSeq(Tail(s)) THEN Head(s) ELSE MinSeq(Tail(s))

\* [f(x) for x in s]
DelayOf(s) == [i \in 1..Len(s) |-> s[i].delay[1]]

\* Python truthiness of an optional number (`if p.delay`) and of an optional
\* string (`if position.route_id`)
TruthyNumber(opt) == opt # <<>> /\ opt[1] # 0
TruthyString(x) == x # None /\ x # ""

\* [p.delay for p in predictions if p.delay is not None]
DelaysNotNone(predictions) == DelayOf(SelectSeq(predictions, LAMBDA p : p.delay # <<>>))

\* A filter that keeps only the truthy delays (`if p.delay`)
DelaysTruthy(predictions) ==
    DelayOf(SelectSeq(predictions, LAMBDA p : TruthyNumber(p.delay)))

\* The dict _get_performance_metrics builds from a non-empty list of delays
DelayMetrics(delay_list) ==
    [avg_delay |-> Ratio(SumSeq(delay_list), Len(delay_list)), max_delay |-> MaxSeq(delay_list),
     min_delay |-> MinSeq(delay_list), delay_count |-> Len(delay_list)]

\* What _get_performance_metrics returns for the list of delays
MetricsOf(delay_list) ==
    IF delay_list = <<>>
    THEN [avg_delay |-> Ratio(0, 1), max_delay |-> 0, min_delay |-> 0]
    ELSE DelayMetrics(delay_list)

\* The metrics over the truthy delays only
GetPerformanceMetricsTruthy(aggs) == MetricsOf(DelaysTruthy(aggs["Prediction"]))

\* DataAggregator._get_performance_metrics
GetPerformanceMetrics(aggs) == MetricsOf(DelaysNotNone(aggs["Prediction"]))

\* sum(1 for p in predictions if cond(p))
CountIf(s, Cond(_)) == Cardinality({i \in 1..Len(s) : Cond(s[i])})

\* The status with the thresholds taken inclusively
GetOverallServiceStatusInclusive(delay_percentage, total_alerts) ==
    IF delay_percentage.num >= 20 * delay_percentage.den \/ total_alerts >= 10 THEN "poor"
    ELSE IF delay_percentage.num >= 10 * delay_percentage.den \/ total_alerts >= 5
    THEN "fair"
    ELSE IF delay_percentage.num >= 5 * delay_percentage.den \/ total_alerts >= 2
    THEN "good"
    ELSE "excellent"

\* DataAggregator._get_overall_service_status
GetOverallServiceStatus(delay_percentage, total_alerts) ==
    IF RatioGt(delay_percentage, 20) \/ total_alerts > 10 THEN "poor"
    ELSE IF RatioGt(delay_percentage, 10) \/ total_alerts > 5 THEN "fair"
    ELSE IF RatioGt(delay_percentage, 5) \/ total_alerts > 2 THEN "good"
    ELSE "excellent"

\* delay_percentage of get_service_health_summary
DelayPercentage(delayed, total) ==
    IF total > 0 THEN Ratio(delayed * 100, total) ELSE Ratio(0, 1)

\* The conditions of the three delay buckets
IsDelayed(p) == TruthyNumber(p.delay) /\ p.delay[1] > 0
IsMinor(p) == TruthyNumber(p.delay) /\ 0 < p.delay[1] /\ p.delay[1] <= 300
IsModerateFromZero(p) == TruthyNumber(p.delay) /\ 0 < p.delay[1] /\ p.delay[1] <= 900
IsModerate(p) == TruthyNumber(p.delay) /\ 300 < p.delay[1] /\ p.delay[1] <= 900
IsMajor(p) == TruthyNumber(p.delay) /\ p.delay[1] > 900

\* DataAggregator.get_service_health_summary
GetServiceHealthSummary(aggs) ==
    [total_predictions |-> Len(aggs["Prediction"]),
     total_vehicles |-> Len(aggs["VehiclePosition"]),
     total_alerts |-> Len(aggs["Alert"]),
     delayed_predictions |-> CountIf(aggs["Prediction"], IsDelayed),
     delay_percentage |-> DelayPercentage(CountIf(aggs["Prediction"], IsDelayed),
                                          Len(aggs["Prediction"])),
     delay_breakdown |-> [minor |-> CountIf(aggs["Prediction"], IsMinor),
                          moderate |-> CountIf(aggs["Prediction"], IsModerate),
                          major |-> CountIf(aggs["Prediction"], IsMajor)],
     service_status |->
         GetOverallServiceStatus(
             DelayPercentage(CountIf(aggs["Prediction"], IsDelayed),
                             Len(aggs["Prediction"])),
             Len(aggs["Alert"]))]

\* The keys of route_stats: every route met by one of the three loops
RouteKeys(aggs) ==
    {aggs["Prediction"][i].route_id : i \in 1..Len(aggs["Prediction"])}
      \cup {aggs["VehiclePosition"][i].route_id :
               i \in {j \in 1..Len(aggs["VehiclePosition"]) :
                        TruthyString(aggs["VehiclePosition"][j].route_id)}}
      \cup UNION {SeqSet(aggs["Alert"][i].affected_routes) : i \in 1..Len(aggs["Alert"])}

\* route_stats[route_id]["delays"]: the truthy delays of the route's predictions
RouteDelays(aggs, route_id) ==
    DelaysTruthy(SelectSeq(aggs["Prediction"], LAMBDA p : p.route_id = route_id))

\* The averages get_route_summary adds to a route's entry
RouteAverages(delay_list) ==
    IF delay_list # <<>>
    THEN [avg_delay |-> Ratio(SumSeq(delay_list), Len(delay_list)),
          max_delay |-> MaxSeq(delay_list), min_delay |-> MinSeq(delay_list)]
    ELSE [avg_delay |-> Ratio(0, 1), max_delay |-> 0, min_delay |-> 0]

\* One entry of get_route_summary
RouteStats(aggs, route_id) ==
    [predictions |-> CountIf(aggs["Prediction"], LAMBDA p : p.route_id = route_id),
     vehicle_positions |->
         CountIf(aggs["VehiclePosition"],
                 LAMBDA v : TruthyString(v.route_id) /\ v.route_id = route_id),
     alerts |->
         SumSeq([i \in 1..Len(aggs["Alert"]) |->
                    CountIf(aggs["Alert"][i].affected_routes, LAMBDA r : r = route_id)]),
     averages |-> RouteAverages(RouteDelays(aggs, route_id))]

\* DataAggregator.get_route_summary
GetRouteSummary(aggs) == [route_id \in RouteKeys(aggs) |-> RouteStats(aggs, route_id)]

\* A caller (tests, process_batch) hands one model object to process()
ProcessCall(data, limit) ==
    /\ TotalRecords(aggregations) < limit
    /\ aggregations' = Process(aggregations, data)
    /\ UNCHANGED <<passedToStore, published, pending, handled, flowCycles>>

NextAggDelays ==
    \E data \in DelayPredictions :
        ProcessCall(data, MaxDelayRecords) /\ UNCHANGED <<restVars, storeVars, engineVars, analyticsVars, pollVars, bufferVars>>

NextAggRoutes ==
    \E data \in RouteInputs :
        ProcessCall(data, MaxRouteRecords) /\ UNCHANGED <<restVars, storeVars, engineVars, analyticsVars, pollVars, bufferVars>>

----------------------------------------------------------------------------
\* TransitAnalytics: detect_anomalies and the two status functions, each
\* applied to arguments drawn from bounded sets.

MaxSameDelay == 12
MaxOtherDelay == 2
MaxMissingDelay == 1
MaxAnomalies == 4

LowDelay == 0
MidDelay == 30
HighDelay == 60

\* The dicts of get_recent_predictions: `none` rows without a delay, then
\* `low`, `mid` and `high` rows with the three delay values
RecentPredictions(none, low, mid, high) ==
    [i \in 1..(none + low + mid + high) |->
        [route_id |-> "Red",
         delay |-> IF i <= none THEN <<>>
                   ELSE IF i <= none + low THEN <<LowDelay>>
                   ELSE IF i <= none + low + mid THEN <<MidDelay>>
                   ELSE <<HighDelay>>]]

AlertTotals == {0, 10, 11}

Square(x) == x * x

SumSquares(s) == SumSeq([i \in 1..Len(s) |-> Square(s[i])])

\* d > statistics.mean(ds) + 3 * statistics.stdev(ds), for n = len(ds) > 1,
\* S = sum(ds) and Q = the sum of squares: the sample variance is
\* (n * Q - S * S) / (n * (n - 1)), and both sides are cleared of denominators
AboveThreeSigma(d, n, S, Q) ==
    /\ n * d - S > 0
    /\ Square(n * d - S) * (n - 1) > 9 * n * (n * Q - S * S)

\* d > threshold, with delay_std = 0.0 for a single delay
AboveThreshold(d, delay_list) ==
    IF Len(delay_list) > 1
    THEN AboveThreeSigma(d, Len(delay_list), SumSeq(delay_list), SumSquares(delay_list))
    ELSE Len(delay_list) * d > SumSeq(delay_list)

\* extreme_delays = [d for d in delays if d > threshold]
ExtremeDelays(delay_list) == SelectSeq(delay_list, LAMBDA d : AboveThreshold(d, delay_list))

\* The extreme_delays report
ExtremeDelaysAnomaly(extreme_delays) ==
    [anomaly_type |-> "extreme_delays",
     severity |-> IF Len(extreme_delays) > 5 THEN "high" ELSE "medium",
     flagged |-> Len(extreme_delays)]

\* The delay part of detect_anomalies.  The comprehension for affected_routes
\* compares p.get('delay', 0), which is None for a row without a delay, with
\* the threshold: that comparison raises TypeError.
DelayAnomalies(predictions, delay_list) ==
    IF ExtremeDelays(delay_list) = <<>>
    THEN [raised |-> FALSE, anomalies |-> <<>>]
    ELSE IF \E i \in 1..Len(predictions) : predictions[i].delay = <<>>
    THEN [raised |-> TRUE, anomalies |-> <<>>]
    ELSE [raised |-> FALSE, anomalies |-> <<ExtremeDelaysAnomaly(ExtremeDelays(delay_list))>>]

\* An alert part that reports every alert above the tenth
DisruptionAnomalyPerAlert(total_alerts) ==
    IF total_alerts > 10
    THEN [i \in 1..(total_alerts - 10) |->
             [anomaly_type |-> "service_disruption", severity |-> "high", flagged |-> 0]]
    ELSE <<>>

\* The alert part of detect_anomalies
DisruptionAnomalies(total_alerts) ==
    IF total_alerts > 10
    THEN <<[anomaly_type |-> "service_disruption", severity |-> "high", flagged |-> 0]>>
    ELSE <<>>

\* The two parts in order; an exception in the first is re-raised
AnomaliesOf(part, total_alerts) ==
    IF part.raised THEN part
    ELSE [raised |-> FALSE, anomalies |-> part.anomalies \o DisruptionAnomalies(total_alerts)]

\* TransitAnalytics.detect_anomalies
DetectAnomalies(predictions, total_alerts) ==
    AnomaliesOf(DelayAnomalies(predictions, DelaysNotNone(predictions)), total_alerts)

\* The score of one argument triple
StatusScore(on_time_percentage, high_severity_anomalies, total_alerts) ==
    100 - (IF on_time_percentage.num < 80 * on_time_percentage.den THEN 20
           ELSE IF on_time_percentage.num < 90 * on_time_percentage.den THEN 10
           ELSE 0)
        - high_severity_anomalies * 15
        - (IF total_alerts > 5 THEN 10 ELSE 0)

StatusOfScore(score) ==
    IF score >= 80 THEN "excellent"
    ELSE IF score >= 60 THEN "good"
    ELSE IF score >= 40 THEN "fair"
    ELSE "poor"

\* len([a for a in anomalies if a.severity == 'high'])
HighSeverityAnomalies(anomalies) == CountIf(anomalies, LAMBDA a : a.severity = "high")

\* The status when every anomaly counts, whatever its severity
CalculateOverallStatusAnySeverity(on_time_percentage, anomalies, total_alerts) ==
    StatusOfScore(StatusScore(on_time_percentage, Len(anomalies), total_alerts))

\* TransitAnalytics._calculate_overall_status
CalculateOverallStatus(on_time_percentage, anomalies, total_alerts) ==
    StatusOfScore(StatusScore(on_time_percentage, HighSeverityAnomalies(anomalies),
                              total_alerts))

Severities == {"low", "medium", "high"}
AnomalyLists ==
    UNION {[1..n -> [severity : Severities]] : n \in 0..MaxAnomalies}
OnTimePercentages == {Ratio(x, 10) : x \in {0, 799, 800, 801, 899, 900, 1000}}
StatusAlertTotals == {0, 5, 6}
DelayPercentages ==
    {Ratio(x, 10) : x \in {0, 49, 50, 51, 99, 100, 101, 199, 200, 201, 1000}}
HealthAlertTotals == 0..12

DetectAnomaliesCall(none, low, mid, high, total_alerts) ==
    /\ analyticsCall.fn = "none"
    /\ analyticsCall' = [fn |-> "detect_anomalies",
                         predictions |-> RecentPredictions(none, low, mid, high),
                         total_alerts |-> total_alerts]
    /\ analyticsRet' = DetectAnomalies(RecentPredictions(none, low, mid, high), total_alerts)

CalculateOverallStatusCall(on_time_percentage, anomalies, total_alerts) ==
    /\ analyticsCall.fn = "none"
    /\ analyticsCall' = [fn |-> "_calculate_overall_status",
                         on_time_percentage |-> on_time_percentage,
                         anomalies |-> anomalies, total_alerts |-> total_alerts]
    /\ analyticsRet' = CalculateOverallStatus(on_time_percentage, anomalies, total_alerts)

GetOverallServiceStatusCall(delay_percentage, total_alerts) ==
    /\ analyticsCall.fn = "none"
    /\ analyticsCall' = [fn |-> "_get_overall_service_status",
                         delay_percentage |-> delay_percentage,
                         total_alerts |-> total_alerts]
    /\ analyticsRet' = GetOverallServiceStatus(delay_percentage, total_alerts)

InitAnalytics ==
    /\ analyticsCall = [fn |-> "none"]
    /\ analyticsRet = "none"

NextAnomalies ==
    \E none \in 0..MaxMissingDelay, low \in 0..MaxSameDelay,
       mid \in 0..MaxOtherDelay, high \in 0..MaxOtherDelay, total_alerts \in AlertTotals :
        /\ DetectAnomaliesCall(none, low, mid, high, total_alerts)
        /\ UNCHANGED <<restVars, storeVars, engineVars, flowVars, pollVars, bufferVars>>

NextStatus ==
    \/ \E on_time_percentage \in OnTimePercentages, anomalies \in AnomalyLists,
          total_alerts \in StatusAlertTotals :
           /\ CalculateOverallStatusCall(on_time_percentage, anomalies, total_alerts)
           /\ UNCHANGED <<restVars, storeVars, engineVars, flowVars, pollVars, bufferVars>>
    \/ \E delay_percentage \in DelayPercentages, total_alerts \in HealthAlertTotals :
           /\ GetOverallServiceStatusCall(delay_percentage, total_alerts)
           /\ UNCHANGED <<restVars, storeVars, engineVars, flowVars, pollVars, bufferVars>>

----------------------------------------------------------------------------
\* One poll cycle as a whole: fetch_data of each ingestor over what the
\* source answered, then BaseIngestor.ingest's bookkeeping, and health_check.

MaxPolls == 6

\* What one request of the REST source can come to: a decoded document with
\* no or one item, a body that response.json() cannot decode, or a network
\* error that outlasts the retries
V3Answers == {"empty", "item", "malformed", "neterr"}

\* What one feed of the binary source can come to: a non-200 answer or a
\* network error (None), a zero-length body, bytes that ParseFromString
\* rejects, or a feed with one entity
GtfsAnswers == {"none", "nobytes", "malformed", "entity"}

V3Payloads == [predictions : V3Answers, vehicles : V3Answers]
GtfsPayloads ==
    [vehicle_positions : GtfsAnswers, trip_updates : GtfsAnswers, alerts : GtfsAnswers]

\* V3RestIngestor._make_request followed by data.get("data", []): the number
\* of items, or -1 when the call raises
V3FetchOne(answer) ==
    CASE answer = "empty" -> 0
      [] answer = "item" -> 1
      [] OTHER -> -1

\* V3RestIngestor.fetch_data: the first call that raises ends it
V3FetchData(payload) ==
    IF V3FetchOne(payload.predictions) < 0 \/ V3FetchOne(payload.vehicles) < 0
    THEN [raised |-> TRUE, raw |-> 0]
    ELSE [raised |-> FALSE,
          raw |-> V3FetchOne(payload.predictions) + V3FetchOne(payload.vehicles)]

\* _fetch_protobuf_feed, `if data:` and the feed's _parse_* function, whose
\* `except Exception` turns a decode error into an empty list
GtfsParse(answer) ==
    CASE answer = "entity" -> 1
      [] OTHER -> 0

\* GTFSRTIngestor.fetch_data: nothing it awaits raises, so it returns the
\* records of the feeds that could be fetched and parsed
GtfsFetchData(payload) ==
    [raised |-> FALSE,
     raw |-> GtfsParse(payload.vehicle_positions) + GtfsParse(payload.trip_updates)
               + GtfsParse(payload.alerts)]

FetchData(e, payload) ==
    IF e = "mbta_v3_rest" THEN V3FetchData(payload) ELSE GtfsFetchData(payload)

Payloads(e) == IF e = "mbta_v3_rest" THEN V3Payloads ELSE GtfsPayloads

\* The payload holds something that cannot be decoded
Undecodable(payload) == \E k \in DOMAIN payload : payload[k] = "malformed"

\* BaseIngestor.ingest after an exception
IngestFailed(ing) ==
    [ing EXCEPT !.total_errors = @ + 1, !.consecutive_failures = @ + 1]

\* BaseIngestor.ingest after transform_data
IngestSucceeded(ing, start_time, count) ==
    [ing EXCEPT !.total_records_ingested = @ + count,
                !.last_successful_ingestion = <<start_time>>,
                !.consecutive_failures = 0]

\* BaseIngestor.ingest: the ingestor's fields when it returns
IngestState(ing, start_time, fetched) ==
    IF fetched.raised THEN IngestFailed(ing)
    ELSE IF fetched.raw = 0 THEN ing
    ELSE IngestSucceeded(ing, start_time, fetched.raw)

\* BaseIngestor.ingest: the IngestionResult
IngestResult(start_time, fetched) ==
    [success |-> ~ fetched.raised, timestamp |-> start_time,
     record_count |-> IF fetched.raised THEN 0 ELSE fetched.raw]

\* BaseIngestor.health_check()["status"]
HealthStatus(ing) == IF ing.consecutive_failures < 5 THEN "healthy" ELSE "degraded"

\* run_continuous up to its loop
RunContinuous(e) ==
    /\ ~ ingestors[e].started
    /\ ingestors' = [ingestors EXCEPT ![e].started = TRUE, ![e].is_running = TRUE]
    /\ UNCHANGED <<clock, lastPoll>>

\* A loop that stops polling once the engine is degraded
PollAllowedUnlessDegraded(e) ==
    ingestors[e].is_running /\ HealthStatus(ingestors[e]) = "healthy"

\* `while self.is_running`
PollAllowed(e) == ingestors[e].is_running

\* One turn of run_continuous' loop: ingest(), the callback, the sleep
Poll(e, payload) ==
    /\ PollAllowed(e)
    /\ clock < MaxPolls
    /\ clock' = clock + 1
    /\ ingestors' =
          [ingestors EXCEPT ![e] = IngestState(@, clock + 1, FetchData(e, payload))]
    /\ lastPoll' = [polled |-> TRUE, name |-> e, undecodable |-> Undecodable(payload),
                    before |-> ingestors[e],
                    result |-> IngestResult(clock + 1, FetchData(e, payload))]

\* BaseIngestor.stop
Stop(e) ==
    /\ ingestors[e].is_running
    /\ ingestors' = [ingestors EXCEPT ![e].is_running = FALSE]
    /\ UNCHANGED <<clock, lastPoll>>

InitPoll ==
    /\ clock = 0
    /\ ingestors = [e \in Engines |->
                      [started |-> FALSE, is_running |-> FALSE,
                       last_successful_ingestion |-> <<>>, total_records_ingested |-> 0,
                       total_errors |-> 0, consecutive_failures |-> 0]]
    /\ lastPoll = [polled |-> FALSE]

NextPoll ==
    \/ \E e \in Engines : RunContinuous(e) /\ UNCHANGED <<restVars, storeVars, engineVars, flowVars, analyticsVars, bufferVars>>
    \/ \E e \in Engines : \E payload \in Payloads(e) : Poll(e, payload) /\ UNCHANGED <<restVars, storeVars, engineVars, flowVars, analyticsVars, bufferVars>>
    \/ \E e \in Engines : Stop(e) /\ UNCHANGED <<restVars, storeVars, engineVars, flowVars, analyticsVars, bufferVars>>

----------------------------------------------------------------------------
\* GTFSRTIngestor._parse_trip_updates: the delay of one trip update, computed
\* from its stop-time updates.

MaxStopUpdates == 2

\* A StopTimeEvent (arrival or departure) of a stop-time update: absent, or
\* present with or without a delay
StopTimeEvents ==
    {[has |-> FALSE, delay |-> <<>>]}
      \cup [has : {TRUE}, delay : {<<>>, <<-60>>, <<0>>, <<120>>}]

StopTimeUpdates == [arrival : StopTimeEvents, departure : StopTimeEvents]

StopTimeUpdateLists == UNION {[1..n -> StopTimeUpdates] : n \in 0..MaxStopUpdates}

\* The arrival and departure events in the order the loop visits them
StopTimeEventsOf(stop_time_updates) ==
    [i \in 1..(2 * Len(stop_time_updates)) |->
        IF i % 2 = 1 THEN stop_time_updates[(i + 1) \div 2].arrival
        ELSE stop_time_updates[i \div 2].departure]

\* The list `delays` after the loop: an event's delay is appended when
\* `"arrival" in stop_update and stop_update["arrival"].get("delay")` is truthy
CollectedDelays(stop_time_updates) ==
    DelayOf(SelectSeq(StopTimeEventsOf(stop_time_updates),
                      LAMBDA event : event.has /\ TruthyNumber(event.delay)))

\* trip_update["delay"] for a collected list
MeanOrNone(delay_list) ==
    IF delay_list # <<>> THEN <<Ratio(SumSeq(delay_list), Len(delay_list))>> ELSE <<>>

\* trip_update["delay"] as _parse_trip_updates computes it
TripUpdateDelay(stop_time_updates) ==
    MeanOrNone(CollectedDelays(stop_time_updates))

ParseTripUpdateCall(stop_time_updates) ==
    /\ analyticsCall.fn = "none"
    /\ analyticsCall' = [fn |-> "_parse_trip_updates",
                         stop_time_updates |-> stop_time_updates]
    /\ analyticsRet' = TripUpdateDelay(stop_time_updates)

NextTripDelay ==
    \E stop_time_updates \in StopTimeUpdateLists :
        /\ ParseTripUpdateCall(stop_time_updates)
        /\ UNCHANGED <<restVars, storeVars, engineVars, flowVars, pollVars, bufferVars>>

----------------------------------------------------------------------------
\* The aggregator's buffers under the callbacks of the two engines, direct
\* process() calls, summary queries and clear_aggregations.  A callback is
\* suspended at `await process_and_store(item)`, so the callbacks of the two
\* engines interleave item by item.

MaxProcessCalls == 4

\* The transformed records (dicts) an engine's callback receives
CallbackItems(e) ==
    IF e = "mbta_v3_rest"
    THEN {[pytype |-> "dict", prediction_id |-> "P1", source |-> "mbta_v3_api"]}
    ELSE {[pytype |-> "dict", vehicle_id |-> "V1", source |-> "mbta_gtfs_rt"],
          [pytype |-> "dict", alert_id |-> "A1", source |-> "mbta_gtfs_rt"]}

CallbackData(e) == [1..1 -> CallbackItems(e)] \cup [1..2 -> CallbackItems(e)]

\* Model objects handed to process() directly
ProcessObjects ==
    {[pytype |-> "Prediction", route_id |-> "Red", delay |-> <<120>>],
     [pytype |-> "Alert", affected_routes |-> <<"Red">>]}

Queries == {"get_summary_stats", "get_route_summary", "get_service_health_summary"}

\* _update_summary_stats: the count of the type
UpdateSummaryStats(stats, data_type) == [stats EXCEPT ![data_type] = @ + 1]

\* What a summary query returns, as far as counts go
QueryResult(q) ==
    CASE q = "get_summary_stats" -> TotalRecords(aggregations)
      [] q = "get_route_summary" -> Cardinality(RouteKeys(aggregations))
      [] OTHER -> GetServiceHealthSummary(aggregations).total_predictions

\* DataAggregator.process(data), called by `caller`
ProcessStep(caller, data) ==
    /\ processCalls < MaxProcessCalls
    /\ processCalls' = processCalls + 1
    /\ aggregations' = Process(aggregations, data)
    /\ summary_stats' = UpdateSummaryStats(summary_stats, TypeName(data))
    /\ passedToProcess' =
          [passedToProcess EXCEPT ![TypeName(data)] = Append(@, data)]
    /\ lastCall' = [op |-> "process", caller |-> caller, data |-> data,
                    recognized |-> TypeName(data) \in KnownTypes,
                    before |-> aggregations, stats_before |-> summary_stats]

\* handle_ingestion_result is entered with an engine's result
CallbackStart(e, data) ==
    /\ callbacks[e] = <<>>
    /\ processCalls + Len(data) <= MaxProcessCalls
    /\ callbacks' = [callbacks EXCEPT ![e] = data]
    /\ lastCall' = [op |-> "callback", caller |-> e]
    /\ UNCHANGED <<aggregations, summary_stats, passedToProcess, processCalls>>

\* One iteration of the callback's loop: process_and_store(item)
CallbackStep(e) ==
    /\ callbacks[e] # <<>>
    /\ ProcessStep(e, Head(callbacks[e]))
    /\ callbacks' = [callbacks EXCEPT ![e] = Tail(@)]

\* process() called directly (process_batch, tests)
ProcessObject(data) ==
    /\ ProcessStep("direct", data)
    /\ UNCHANGED callbacks

\* A summary query
Query(q) ==
    /\ lastCall' = [op |-> "query", name |-> q, result |-> QueryResult(q)]
    /\ UNCHANGED <<aggregations, summary_stats, passedToProcess, processCalls, callbacks>>

\* A clear that forgets the statistics only
ClearedStatsOnly(aggs) == aggs

\* self.aggregations.clear()
Cleared(aggs) == [t \in TypeNames |-> <<>>]

\* DataAggregator.clear_aggregations
ClearAggregations ==
    /\ TotalRecords(aggregations) > 0
    /\ aggregations' = Cleared(aggregations)
    /\ summary_stats' = [t \in TypeNames |-> 0]
    /\ passedToProcess' = [t \in TypeNames |-> <<>>]
    /\ lastCall' = [op |-> "clear"]
    /\ UNCHANGED <<processCalls, callbacks>>

InitBuffers ==
    /\ summary_stats = [t \in TypeNames |-> 0]
    /\ passedToProcess = [t \in TypeNames |-> <<>>]
    /\ callbacks = [e \in Engines |-> <<>>]
    /\ processCalls = 0
    /\ lastCall = [op |-> "none"]

NextBuffers ==
    \/ \E e \in Engines : \E data \in CallbackData(e) :
           CallbackStart(e, data) /\ UNCHANGED <<restVars, storeVars, engineVars, otherFlowVars, analyticsVars, pollVars>>
    \/ \E e \in Engines : CallbackStep(e) /\ UNCHANGED <<restVars, storeVars, engineVars, otherFlowVars, analyticsVars, pollVars>>
    \/ \E data \in ProcessObjects : ProcessObject(data) /\ UNCHANGED <<restVars, storeVars, engineVars, otherFlowVars, analyticsVars, pollVars>>
    \/ \E q \in Queries : Query(q) /\ UNCHANGED <<restVars, storeVars, engineVars, otherFlowVars, analyticsVars, pollVars>>
    \/ ClearAggregations /\ UNCHANGED <<restVars, storeVars, engineVars, otherFlowVars, analyticsVars, pollVars>>

----------------------------------------------------------------------------
\* TransitAnalytics.generate_service_summary over the stored predictions and
\* alerts: analyze_performance, detect_anomalies, _calculate_overall_status.

ManySame == 55
ManyExtreme == 6

\* The rows of get_recent_predictions: `none` without a delay, then rows with
\* delays of 0, 1 and 2 seconds
StoredPredictions(none, zero, one, two) ==
    [i \in 1..(none + zero + one + two) |->
        [route_id |-> "Red",
         delay |-> IF i <= none THEN <<>>
                   ELSE IF i <= none + zero THEN <<0>>
                   ELSE IF i <= none + zero + one THEN <<1>>
                   ELSE <<2>>]]

SameCounts == {0, 1, ManySame}
ExtremeCounts == {0, 1, ManyExtreme}
SummaryAlertTotals == {0, 6, 11, 12}

\* on_time_pct of analyze_performance for a non-empty list of predictions
OnTimePct(predictions, delay_list) ==
    IF delay_list # <<>>
    THEN Ratio((Len(predictions) - CountIf(delay_list, LAMBDA d : d > 0)) * 100,
               Len(predictions))
    ELSE Ratio(100, 1)

\* TransitAnalytics.analyze_performance().on_time_percentage
AnalyzePerformance(predictions) ==
    IF predictions = <<>> THEN Ratio(0, 1)
    ELSE OnTimePct(predictions, DelaysNotNone(predictions))

\* The summary once the anomalies are known; an exception of detect_anomalies
\* is re-raised
SummaryOf(on_time_percentage, detected, total_alerts) ==
    IF detected.raised
    THEN [raised |-> TRUE, overall_status |-> "none", anomalies |-> <<>>]
    ELSE [raised |-> FALSE,
          overall_status |->
              CalculateOverallStatus(on_time_percentage, detected.anomalies, total_alerts),
          anomalies |-> detected.anomalies]

\* TransitAnalytics.generate_service_summary
GenerateServiceSummary(predictions, total_alerts) ==
    SummaryOf(AnalyzePerformance(predictions), DetectAnomalies(predictions, total_alerts),
              total_alerts)

GenerateServiceSummaryCall(predictions, total_alerts) ==
    /\ analyticsCall.fn = "none"
    /\ analyticsCall' = [fn |-> "generate_service_summary",
                         on_time_percentage |-> AnalyzePerformance(predictions),
                         total_alerts |-> total_alerts]
    /\ analyticsRet' = GenerateServiceSummary(predictions, total_alerts)

NextSummary ==
    \E none \in {0, 1}, zero \in SameCounts, one \in SameCounts, two \in ExtremeCounts,
       total_alerts \in SummaryAlertTotals :
        /\ GenerateServiceSummaryCall(StoredPredictions(none, zero, one, two), total_alerts)
        /\ UNCHANGED <<restVars, storeVars, engineVars, flowVars, pollVars, bufferVars>>

Init ==
    /\ InitRest /\ InitStore /\ InitEngine /\ InitFlow
    /\ InitAnalytics /\ InitPoll /\ InitBuffers

SpecRest == Init /\ [][NextRest]_vars
SpecStore == Init /\ [][NextStore]_vars
SpecEngine == Init /\ [][NextEngine]_vars
FairSpecEngine == Init /\ [][NextEngine]_vars /\ EngineFairness
SpecFlow == Init /\ [][NextFlow]_vars
SpecAggDelays == Init /\ [][NextAggDelays]_vars
SpecAggRoutes == Init /\ [][NextAggRoutes]_vars
SpecAnomalies == Init /\ [][NextAnomalies]_vars
SpecStatus == Init /\ [][NextStatus]_vars
SpecPoll == Init /\ [][NextPoll]_vars
SpecTripDelay == Init /\ [][NextTripDelay]_vars
SpecBuffers == Init /\ [][NextBuffers]_vars
SpecSummary == Init /\ [][NextSummary]_vars

----------------------------------------------------------------------------
\* C1: in every 60-second interval of real time at most Quota calls of
\* _check_rate_limit return (requests are issued).
IssuedIn(t) == {i \in 1..Len(issued) : issued[i] >= t /\ issued[i] < t + RateWindow}

C1_QuotaPerWindow ==
    \A i \in 1..Len(issued) : Cardinality(IssuedIn(issued[i])) <= Quota

\* C2: a request whose every attempt fails with a network error, or whose
\* every attempt gets a 5xx response, makes exactly MaxRetries + 1 HTTP
\* attempts before raising, with non-decreasing backoff delays.
C2_TransientExhaust ==
    (result = "raised" /\ (seen = {"5xx"} \/ seen = {"neterr"}))
        => (attempts = MaxRetries + 1 /\ NonDecreasing(delays))

\* C3: the predictions table never holds two rows with the same
\* (trip_id, stop_id, arrival_time), and storing a prediction whose key is
\* already present succeeds, leaves the table as it was and returns the id
\* of the row first stored under that key.
C3_PredictionIdempotent ==
    /\ \A r1, r2 \in db.predictions : PredictionKey(r1) = PredictionKey(r2) => r1 = r2
    /\ (/\ lastStore.called
        /\ lastStore.data.pytype = "Prediction"
        /\ PredictionKey(lastStore.data) \in
              {PredictionKey(r) : r \in lastStore.before.predictions})
         => /\ lastStore.success
            /\ db.predictions = lastStore.before.predictions
            /\ <<PredictionKey(lastStore.data), lastStore.stored_id>> \in firstId

C3_Witness ==
    /\ lastStore.called
    /\ lastStore.data.pytype = "Prediction"
    /\ lastStore.data.arrival_time = None
    /\ PredictionKey(lastStore.data) \in
          {PredictionKey(r) : r \in lastStore.before.predictions}
    /\ lastStore.success

\* Every foreign key of every row references an existing row
FkIntegrity(d) ==
    /\ \A t \in d.trips : FkOk(d, "routes", t.route_id)
    /\ \A p \in d.predictions : /\ FkOk(d, "trips", p.trip_id)
                                /\ FkOk(d, "routes", p.route_id)
                                /\ FkOk(d, "stops", p.stop_id)
                                /\ NullOrFk(d, "vehicles", p.vehicle_id)
    /\ \A v \in d.vehicle_positions : /\ FkOk(d, "vehicles", v.vehicle_id)
                                      /\ NullOrFk(d, "trips", v.trip_id)
                                      /\ NullOrFk(d, "routes", v.route_id)
    /\ \A u \in d.trip_updates : /\ FkOk(d, "trips", u.trip_id)
                                 /\ NullOrFk(d, "routes", u.route_id)

\* C4: storing a prediction, vehicle position or trip update whose route,
\* stop, trip or vehicle is missing succeeds (the parents are created), and
\* every foreign key, the placeholder trip's route_id included, references an
\* existing row.
C4_ParentsAutoCreated ==
    /\ (/\ lastStore.called
        /\ lastStore.data.pytype \in {"Prediction", "VehiclePosition", "TripUpdate"})
         => lastStore.success
    /\ FkIntegrity(db)

\* Whether the tables hold the row of a record
RowPresent(d, data) ==
    CASE data.pytype = "Route" -> FkOk(d, "routes", data.route_id)
      [] data.pytype = "Trip" -> TripRow(d, data.trip_id) # {}
      [] data.pytype = "Prediction" -> ExistingPrediction(d, data) # {}
      [] OTHER -> TRUE

\* C5: store_batch reports counts with total = successful + errors, errors
\* being the number of records whose store raised, and every record of the
\* list that can be stored on its own is stored.
C5_BatchIsolatesFailures ==
    lastBatch.called =>
        /\ lastBatch.counts
        /\ lastBatch.total = Len(lastBatch.data_list)
        /\ lastBatch.total = lastBatch.successful + lastBatch.errors
        /\ \A i \in 1..Len(lastBatch.data_list) :
              StoreTransitData(lastBatch.before, lastBatch.data_list[i]).success
                  => RowPresent(db, lastBatch.data_list[i])

\* C6: in one cycle the callback is entered at most once and only when the
\* cycle's result is a success with records; callbacks of one engine never
\* overlap, and no fetch is in progress while a callback has not returned.
C6_CallbackOncePerSuccess ==
    \A e \in Engines :
        /\ cbCount[e] <= 1
        /\ cbActive[e] <= 1
        /\ cbCount[e] = 1 => (lastResult[e].success /\ lastResult[e].record_count > 0)
        /\ pc[e] = "callback" <=> cbActive[e] = 1
        /\ pc[e] = "fetch" => cbActive[e] = 0

C6_Witness ==
    \E e \in Engines : cycle[e] >= 2 /\ cbCount[e] = 1 /\ pc[e] = "sleep"

\* C7: after stop() no new cycle starts, and no cycle that is in flight is
\* interrupted: only the sleep between cycles is cancelled.
C7_InFlightCycleCompletes ==
    \A e \in Engines :
        /\ stopCalled[e] => cycle[e] = cycleAtStop[e]
        /\ ~ interrupted[e]

\* C8: once stop_ingestors has been invoked (by the signal handler, by run's
\* cleanup, or by both) every task terminates with is_running false; no
\* session is closed while a task is still running; no cycle's outcome is
\* delivered twice.
C8_ShutdownCompletes ==
    /\ [](\A e \in Engines : session[e] = "closed" => \A e2 \in Engines : pc[e2] = "done")
    /\ [](\A e \in Engines : cbCount[e] <= 1)
    /\ (\E s \in Stoppers : stopPc[s] # "idle")
          ~> (\A e \in Engines : pc[e] = "done" /\ ~ is_running[e])

C8_Witness ==
    /\ \A s \in Stoppers : stopPc[s] = "done"
    /\ \A e \in Engines : session[e] = "closed" /\ pc[e] = "done" /\ ~ is_running[e]
    /\ \E e \in Engines : cycle[e] >= 1

\* A record the models reject: a delay beyond an hour, a latitude or longitude
\* out of range, or a missing identity field
Invalid(rec) ==
    \/ /\ "delay" \in DOMAIN rec
       /\ rec.delay # <<>>
       /\ (rec.delay[1] > 3600 \/ rec.delay[1] < -3600)
    \/ /\ "latitude" \in DOMAIN rec
       /\ rec.latitude # <<>>
       /\ (rec.latitude[1] > 90 \/ rec.latitude[1] < -90)
    \/ /\ "longitude" \in DOMAIN rec
       /\ rec.longitude # <<>>
       /\ (rec.longitude[1] > 180 \/ rec.longitude[1] < -180)
    \/ /\ "prediction_id" \in DOMAIN rec
       /\ rec.trip_id = <<>>

\* C9: no invalid record reaches DataAggregator.process or
\* store_transit_data.
C9_InvalidRecordsDropped ==
    /\ \A t \in TypeNames : \A i \in 1..Len(aggregations[t]) : ~ Invalid(aggregations[t][i])
    /\ \A i \in 1..Len(passedToStore) : ~ Invalid(passedToStore[i])

\* The variant a transformed record stands for
Variant(item) ==
    IF "prediction_id" \in DOMAIN item THEN "Prediction"
    ELSE IF "vehicle_id" \in DOMAIN item THEN "VehiclePosition"
    ELSE IF "alert_id" \in DOMAIN item THEN "Alert"
    ELSE "TripUpdate"

VariantTopic(item) ==
    CASE Variant(item) = "Prediction" -> "mbta.predictions.raw"
      [] Variant(item) = "VehiclePosition" -> "mbta.vehicles.raw"
      [] Variant(item) = "Alert" -> "mbta.alerts.raw"
      [] OTHER -> "mbta.trip_updates.raw"

VariantRows(d, item) ==
    CASE Variant(item) = "Prediction" -> d.predictions
      [] Variant(item) = "VehiclePosition" -> d.vehicle_positions
      [] Variant(item) = "Alert" -> d.alerts
      [] OTHER -> d.trip_updates

\* C10: every record of a result handled by handle_ingestion_result is in
\* the buffer of its variant, has a row in its variant's table, and has a
\* message on its variant's topic.
C10_RecordsBufferedStoredPublished ==
    \A i \in 1..Len(handled) :
        /\ \E j \in 1..Len(aggregations[Variant(handled[i])]) :
              aggregations[Variant(handled[i])][j] = handled[i]
        /\ VariantRows(db, handled[i]) # {}
        /\ \E j \in 1..Len(published) :
              /\ published[j].topic = VariantTopic(handled[i])
              /\ published[j].value = handled[i]

\* The first k backoff sleeps of the schedule retry_delay * 2^i
BackoffSchedule(d, k) ==
    /\ Len(d) = k
    /\ \A i \in 1..k : d[i] = RetryDelay * Pow2(i - 1)

\* C11: a 429 is always retried and consumes no retry attempt: a request
\* that has met only 429 responses and network errors raises after exactly
\* max_retries + 1 failed attempts, its backoff sleeps following the schedule
\* retry_delay * 2^i whatever the number of 429 responses.
C11_RateLimitedConsumesNoRetry ==
    /\ result = "raised" => seen # {"429"}
    /\ seen \subseteq {"429", "neterr"} =>
          /\ \A i \in 1..Len(backoffs) : backoffs[i] = RetryDelay * Pow2(i - 1)
          /\ result = "raised" => attempts - rate_limited = MaxRetries + 1

\* C12: a request whose response is a 4xx other than 429 raises after one
\* attempt, without any sleep.
C12_ClientErrorNotRetried ==
    seen = {"4xx"} => (result = "raised" /\ attempts = 1 /\ delays = <<>>)

C20_OneLogRowPerStore ==
    lastStore.called =>
        /\ Len(db.logs) = Len(lastStore.before.logs) + 1
        /\ ~ lastStore.success => db.logs[Len(db.logs)].status = "error"

\* The buffer holds exactly five predictions, with delays 0, 60, 300, 900, 1800
FiveDelays ==
    /\ Len(aggregations["Prediction"]) = 5
    /\ Len(DelaysNotNone(aggregations["Prediction"])) = 5
    /\ SeqSet(DelaysNotNone(aggregations["Prediction"])) = {0, 60, 300, 900, 1800}

PredictionsWhere(Cond(_)) ==
    {i \in 1..Len(aggregations["Prediction"]) :
        /\ aggregations["Prediction"][i].delay # <<>>
        /\ Cond(aggregations["Prediction"][i].delay[1])}

BufferedWhere(type, Cond(_)) ==
    {i \in 1..Len(aggregations[type]) : Cond(aggregations[type][i])}

\* The delays (those that are present) of the buffered predictions of a route
DelaysOfRoute(route_id) ==
    DelaysNotNone(SelectSeq(aggregations["Prediction"], LAMBDA p : p.route_id = route_id))

\* Two avg/max/min triples with the same values
SameAverages(a, b) ==
    /\ a.avg_delay.num * b.avg_delay.den = b.avg_delay.num * a.avg_delay.den
    /\ a.max_delay = b.max_delay
    /\ a.min_delay = b.min_delay

\* C16: for every route R, get_route_summary()[R] reports predictions = number
\* of buffered predictions with route R, vehicle_positions = number of buffered
\* positions with route R, alerts = number of buffered alerts listing R as
\* affected, and avg/max/min_delay over those predictions' delays; after one
\* Prediction (route R, delay 120), one VehiclePosition (route R) and one Alert
\* affecting R the values are 1, 1, 1, 120, 120, 120.
C16_RouteSummary ==
    \A R \in DOMAIN GetRouteSummary(aggregations) :
        LET stats == GetRouteSummary(aggregations)[R]
        IN  /\ stats.predictions
                  = Cardinality(BufferedWhere("Prediction", LAMBDA p : p.route_id = R))
            /\ stats.vehicle_positions
                  = Cardinality(BufferedWhere("VehiclePosition", LAMBDA v : v.route_id = R))
            /\ stats.alerts
                  = Cardinality(BufferedWhere("Alert",
                                              LAMBDA a : R \in SeqSet(a.affected_routes)))
            /\ SameAverages(stats.averages, RouteAverages(DelaysOfRoute(R)))
            /\ (/\ aggregations["Prediction"]
                      = <<[pytype |-> "Prediction", route_id |-> R, delay |-> <<120>>]>>
                /\ aggregations["VehiclePosition"]
                      = <<[pytype |-> "VehiclePosition", route_id |-> R]>>
                /\ aggregations["Alert"]
                      = <<[pytype |-> "Alert", affected_routes |-> <<R>>]>>)
                 => stats = [predictions |-> 1, vehicle_positions |-> 1, alerts |-> 1,
                             averages |-> [avg_delay |-> Ratio(120, 1),
                                           max_delay |-> 120, min_delay |-> 120]]

\* The delays of the pass: those of the recent predictions that have one
PassDelays == DelaysNotNone(analyticsCall.predictions)

\* The extreme-delay reports among the anomalies returned
ExtremeReports ==
    SelectSeq(analyticsRet.anomalies, LAMBDA a : a.anomaly_type = "extreme_delays")

\* C17: a detection pass of detect_anomalies yields exactly one extreme-delay
\* report, covering all flagged records, when at least one delay exceeds
\* mean + 3 * sample standard deviation of the delays, and no extreme-delay
\* report otherwise; identical delays yield none.
C17_OneReportPerPass ==
    analyticsCall.fn = "detect_anomalies" =>
        /\ ~ analyticsRet.raised
        /\ ExtremeDelays(PassDelays) # <<>> =>
              /\ Len(ExtremeReports) = 1
              /\ ExtremeReports[1].flagged = Len(ExtremeDelays(PassDelays))
        /\ ExtremeDelays(PassDelays) = <<>> => ExtremeReports = <<>>
        /\ Cardinality(SeqSet(PassDelays)) <= 1 => ExtremeReports = <<>>

\* The anomalies of severity high among the arguments of the call
HighAnomalies ==
    {i \in 1..Len(analyticsCall.anomalies) : analyticsCall.anomalies[i].severity = "high"}

\* The score the scoring rule gives the arguments of the call: 100, minus 20
\* if on-time < 80 else minus 10 if on-time < 90, minus 15 per high anomaly,
\* minus 10 if total alerts > 5
RuleScore ==
    100
      - (IF analyticsCall.on_time_percentage.num < 80 * analyticsCall.on_time_percentage.den
         THEN 20
         ELSE IF analyticsCall.on_time_percentage.num
                   < 90 * analyticsCall.on_time_percentage.den
         THEN 10 ELSE 0)
      - 15 * Cardinality(HighAnomalies)
      - (IF analyticsCall.total_alerts > 5 THEN 10 ELSE 0)

\* C18: for every on-time percentage, list of anomalies and alert count, the
\* overall status is that of the score 100, minus 20 if on-time < 80 else
\* minus 10 if on-time < 90, minus 15 per anomaly of severity high, minus 10 if
\* total alerts > 5: excellent from 80, good from 60, fair from 40, else poor.
C18_OverallStatusScore ==
    analyticsCall.fn = "_calculate_overall_status" =>
        /\ RuleScore >= 80 => analyticsRet = "excellent"
        /\ (RuleScore >= 60 /\ RuleScore < 80) => analyticsRet = "good"
        /\ (RuleScore >= 40 /\ RuleScore < 60) => analyticsRet = "fair"
        /\ RuleScore < 40 => analyticsRet = "poor"

\* On-time 79.9 %, one high anomaly next to a medium one, six alerts: score 55
C18_Witness ==
    /\ analyticsCall.fn = "_calculate_overall_status"
    /\ analyticsCall.on_time_percentage = Ratio(799, 10)
    /\ analyticsCall.anomalies = <<[severity |-> "high"], [severity |-> "medium"]>>
    /\ analyticsCall.total_alerts = 6
    /\ analyticsRet = "fair"

\* p > v for the delay percentage p of the call
PercentageAbove(v) ==
    analyticsCall.delay_percentage.num > v * analyticsCall.delay_percentage.den

\* C19: for every delay percentage p and alert count a the health status is
\* poor if p > 20 or a > 10, otherwise fair if p > 10 or a > 5, otherwise good
\* if p > 5 or a > 2, otherwise excellent.
C19_HealthStatusThresholds ==
    analyticsCall.fn = "_get_overall_service_status" =>
        analyticsRet =
            CASE PercentageAbove(20) \/ analyticsCall.total_alerts > 10 -> "poor"
              [] ~ (PercentageAbove(20) \/ analyticsCall.total_alerts > 10)
                    /\ (PercentageAbove(10) \/ analyticsCall.total_alerts > 5) -> "fair"
              [] ~ (PercentageAbove(10) \/ analyticsCall.total_alerts > 5)
                    /\ ~ (PercentageAbove(20) \/ analyticsCall.total_alerts > 10)
                    /\ (PercentageAbove(5) \/ analyticsCall.total_alerts > 2) -> "good"
              [] OTHER -> "excellent"

\* Exactly 20 % delayed with 5 alerts is fair, not poor
C19_Witness ==
    /\ analyticsCall.fn = "_get_overall_service_status"
    /\ analyticsCall.delay_percentage = Ratio(200, 10)
    /\ analyticsCall.total_alerts = 5
    /\ analyticsRet = "fair"

\* C21: when a fetched payload or feed cannot be decoded, for either
\* ingestor, that cycle's outcome is a failure and the engine's total_errors
\* and consecutive_failures each increase by one.
C21_DecodeFailureCounts ==
    (lastPoll.polled /\ lastPoll.undecodable) =>
        /\ ~ lastPoll.result.success
        /\ ingestors[lastPoll.name].total_errors = lastPoll.before.total_errors + 1
        /\ ingestors[lastPoll.name].consecutive_failures
              = lastPoll.before.consecutive_failures + 1

\* C22: health_check reports degraded exactly when consecutive_failures >= 5
\* and healthy otherwise, and a degraded engine that has not been stopped
\* starts its next poll cycle.
C22_DegradedKeepsPolling ==
    \A e \in Engines :
        /\ HealthStatus(ingestors[e]) = "degraded" <=> ingestors[e].consecutive_failures >= 5
        /\ HealthStatus(ingestors[e]) = "healthy" <=> ingestors[e].consecutive_failures < 5
        /\ (/\ ingestors[e].consecutive_failures >= 5
            /\ ingestors[e].is_running
            /\ clock < MaxPolls)
             => ENABLED (\E payload \in Payloads(e) : Poll(e, payload))

\* An engine that was degraded when its last cycle started, and ran it
C22_Witness ==
    /\ lastPoll.polled
    /\ lastPoll.before.consecutive_failures >= 5
    /\ HealthStatus(lastPoll.before) = "degraded"
    /\ ingestors[lastPoll.name].consecutive_failures = 6

\* C27: after every poll cycle whose outcome has success = true, a cycle whose
\* fetch returned no records included, consecutive_failures is 0 and
\* last_successful_ingestion is that cycle's start time.
C27_SuccessResetsFailures ==
    (lastPoll.polled /\ lastPoll.result.success) =>
        /\ ingestors[lastPoll.name].consecutive_failures = 0
        /\ ingestors[lastPoll.name].last_successful_ingestion
              = <<lastPoll.result.timestamp>>

\* The delay values present in the stop-time updates of the call
PresentDelays ==
    DelayOf(SelectSeq(StopTimeEventsOf(analyticsCall.stop_time_updates),
                      LAMBDA event : event.has /\ event.delay # <<>>))

\* C23: for every trip update of the binary feed the normalized delay is the
\* arithmetic mean of all arrival and departure delay values present in its
\* stop-time updates, a present value of 0 included, and is null exactly when
\* no delay value is present.
C23_TripUpdateDelayIsMean ==
    analyticsCall.fn = "_parse_trip_updates" =>
        /\ analyticsRet = <<>> <=> PresentDelays = <<>>
        /\ analyticsRet # <<>> =>
              analyticsRet[1].num * Len(PresentDelays)
                = SumSeq(PresentDelays) * analyticsRet[1].den

\* The last n values passed to store_transit_data
LastPassed(n) == SubSeq(passedToStore, Len(passedToStore) - n + 1, Len(passedToStore))

\* C25: a persistence failure never halts the pipeline: when storing a record
\* fails, the callback still processes the remaining records of that outcome
\* and returns normally, and the engine goes on to its next poll cycle.
C25_StoreFailureDoesNotHalt ==
    (/\ handled # <<>>
     /\ \E i \in 1..Len(handled) : ~ StoreTransitData(db, handled[i]).success)
      => /\ Len(passedToStore) >= Len(handled)
         /\ LastPassed(Len(handled)) = handled
         /\ (pending = <<>> /\ flowCycles < MaxFlowCycles)
              => ENABLED (\E raw_data \in RawLists(GtfsRawItems) :
                             Ingest("mbta_gtfs_rt", raw_data))

\* A second outcome of two records handled in full after the stores of the
\* first outcome had failed
C25_Witness ==
    /\ Len(handled) = 2
    /\ Len(passedToStore) > 2
    /\ LastPassed(2) = handled
    /\ \A i \in 1..Len(passedToStore) : ~ StoreTransitData(db, passedToStore[i]).success
    /\ pending = <<>>

\* C24: Aggregator.process never raises for a structurally valid record, and
\* a value that is not one of the recognized record variants is ignored: it
\* is added to no buffer and changes no count or statistic of the summaries.
C24_UnrecognizedIgnored ==
    (lastCall.op = "process" /\ ~ lastCall.recognized) =>
        /\ aggregations = lastCall.before
        /\ summary_stats = lastCall.stats_before
        /\ TotalRecords(aggregations) = TotalRecords(lastCall.before)

\* Some buffer is shorter after the step
SomeBufferShrinks == \E t \in TypeNames : Len(aggregations'[t]) < Len(aggregations[t])

\* C26: under every interleaving of the two engines' callbacks and of query
\* calls, the buffer of each type holds exactly the records passed to process
\* for that type since the last clear_aggregations, in call order; a buffer
\* shrinks only by clear_aggregations, which empties every buffer and the
\* summary statistics; no summary query changes any buffer.
C26_BuffersHoldWhatWasProcessed ==
    /\ [](\A t \in TypeNames : aggregations[t] = passedToProcess[t])
    /\ [][SomeBufferShrinks =>
              /\ lastCall'.op = "clear"
              /\ \A t \in TypeNames : aggregations'[t] = <<>> /\ summary_stats'[t] = 0]_vars
    /\ [][lastCall'.op = "clear" =>
              \A t \in TypeNames : aggregations'[t] = <<>> /\ summary_stats'[t] = 0]_vars
    /\ [][lastCall'.op = "query" => aggregations' = aggregations]_vars

\* Both engines' callbacks have put records into the same buffer, one between
\* the two records of the other, and a query has just been answered
C26_Witness ==
    /\ lastCall.op = "query"
    /\ Len(aggregations["dict"]) = 3
    /\ aggregations["dict"][1].source = "mbta_gtfs_rt"
    /\ aggregations["dict"][2].source = "mbta_v3_api"
    /\ aggregations["dict"][3].source = "mbta_gtfs_rt"
    /\ aggregations["dict"] = passedToProcess["dict"]

\* The score of the summary's status, from the arguments of the call and the
\* anomalies returned
SummaryScore ==
    StatusScore(analyticsCall.on_time_percentage,
                HighSeverityAnomalies(analyticsRet.anomalies), analyticsCall.total_alerts)

\* C28: generate_service_summary never yields overall_status poor: one
\* detection pass produces at most two anomalies (one extreme_delays, one
\* service_disruption), so the score is never below 40, whatever the stored
\* predictions and alerts are.
C28_SummaryNeverPoor ==
    (analyticsCall.fn = "generate_service_summary" /\ ~ analyticsRet.raised) =>
        /\ analyticsRet.overall_status \in {"excellent", "good", "fair"}
        /\ Len(analyticsRet.anomalies) <= 2
        /\ \A i, j \in 1..Len(analyticsRet.anomalies) :
              i # j => analyticsRet.anomalies[i].anomaly_type
                         # analyticsRet.anomalies[j].anomaly_type
        /\ SummaryScore >= 40

\* The worst case: on-time below 80 %, more than five extreme delays, more
\* than ten alerts: two high anomalies, score 40, status fair
C28_Witness ==
    /\ analyticsCall.fn = "generate_service_summary"
    /\ ~ analyticsRet.raised
    /\ Len(analyticsRet.anomalies) = 2
    /\ \A i \in 1..2 : analyticsRet.anomalies[i].severity = "high"
    /\ analyticsCall.on_time_percentage.num < 80 * analyticsCall.on_time_percentage.den
    /\ analyticsCall.total_alerts > 10
    /\ SummaryScore = 40
    /\ analyticsRet.overall_status = "fair"

\* Every buffered prediction belongs to route R and at least one has a delay
OneRouteWithDelay(R) ==
    /\ \A i \in 1..Len(aggregations["Prediction"]) :
          aggregations["Prediction"][i].route_id = R
    /\ DelaysNotNone(aggregations["Prediction"]) # <<>>

\* C29: for every buffer content in which all predictions belong to one route
\* R and at least one has a non-null delay, get_route_summary()[R] reports the
\* same avg_delay, max_delay and min_delay as the overall performance metrics
\* of get_summary_stats, including when some delays are 0.
C29_RouteSummaryMatchesMetrics ==
    \A R \in RouteIds :
        OneRouteWithDelay(R) =>
            SameAverages(GetRouteSummary(aggregations)[R].averages,
                         GetPerformanceMetrics(aggregations))

\* The reference records (Route, Stop, Trip), their id and their row
ReferenceTypes == {"Route", "Stop", "Trip"}

ReferenceId(data) ==
    CASE data.pytype = "Route" -> data.route_id
      [] data.pytype = "Stop" -> data.stop_id
      [] data.pytype = "Trip" -> data.trip_id

ReferencePresent(d, data) ==
    CASE data.pytype = "Route" -> data.route_id \in d.routes
      [] data.pytype = "Stop" -> data.stop_id \in d.stops
      [] data.pytype = "Trip" -> TripRow(d, data.trip_id) # {}

\* Every table but the ingestion log, which store_transit_data appends to
TablesOf(d) == [d EXCEPT !.logs = <<>>]

\* Every route, stop and trip row of d is a row of e with the same fields
ReferenceRowsKept(d, e) ==
    /\ d.routes \subseteq e.routes
    /\ d.stops \subseteq e.stops
    /\ d.trips \subseteq e.trips
    /\ \A k \in d.routes :
           (<<"routes", k>> \in d.placeholders) = (<<"routes", k>> \in e.placeholders)
    /\ \A k \in d.stops :
           (<<"stops", k>> \in d.placeholders) = (<<"stops", k>> \in e.placeholders)

====
